---- MODULE Spec2Model ----
(***************************************************************************)
(* Query understanding and routing pipeline of the AI event analyzer.      *)
(*                                                                         *)
(* SpecRouter      QueryRouter.route over a small event table and a query  *)
(*                 vocabulary, one action per pipeline stage.              *)
(* SpecAnomaly     AnomalyService.detect_anomalies over per-day count      *)
(*                 series.                                                 *)
(* SpecConfidence  calculate_confidence over result sizes, filter sets,    *)
(*                 ambiguity markers, method tags and null-cell counts.    *)
(* SpecComparison  the keyword gate and the mode decision of               *)
(*                 handle_comparison_query.                                *)
(* SpecCache       CacheManager under get, set, clear and a clock.         *)
(* SpecDateRange   parse_date_range_from_query over token sequences.       *)
(* SpecFilter      FilterService.extract_filters_from_query and            *)
(*                 apply_time_filters, applied once and twice.             *)
(***************************************************************************)
EXTENDS Integers, Sequences, FiniteSets, TLC

VARIABLES
    df,            \* the Event Table: a sequence of rows [id, date]
    key_columns,   \* the Key Column Map: role -> column name or None
    query,         \* the query text: the set of vocabulary phrases it contains
    pc,            \* position of QueryRouter.route
    ran,           \* the stages that ran for this query, in order
    declined,      \* the stages that ran and yielded control
    llm_calls,     \* outcome of every generative-text call: <<stage, outcome>>
    envelope,      \* the envelope route returned (NoEnvelope before that)
    raised,        \* the exception that escaped route ("none" if none)
    daily_in,      \* detect_anomalies input: [nulls, days] (SpecAnomaly)
    anomalies,     \* detect_anomalies result (SpecAnomaly)
    conf_in,       \* calculate_confidence input (SpecConfidence)
    conf_out,      \* calculate_confidence result (SpecConfidence)
    columns,       \* the columns of the shared event table (SpecRouter)
    previous,      \* method of the answer the same query got just before, or None
    cmp_in,        \* what handle_comparison_query detected in a query (SpecComparison)
    cmp_out,       \* the comparison mode it picked (SpecComparison)
    bd_in,         \* build_detailed_breakdown input: [column, bound] (SpecBreakdown)
    breakdown,     \* the breakdown it built: role -> (value -> count) (SpecBreakdown)
    flt_in,        \* filter resolver input: [table, key_columns, query] (SpecFilter)
    flt_out,       \* filter resolver results of the first and second pass (SpecFilter)
    tokens,        \* query text of parse_date_range_from_query (SpecDateRange)
    date_info,     \* its result (SpecDateRange)
    extracted,     \* codes and months the extractors found in tokens (SpecExtract)
    cache,         \* CacheManager.cache, in dict order: [key, data, timestamp] (SpecCache)
    max_size,      \* CacheManager.max_size (SpecCache)
    now,           \* datetime.now(), in seconds (SpecCache)
    ticks,         \* number of clock advances so far (SpecCache)
    cache_out      \* what the last cache operation returned (SpecCache)

vars == <<df, key_columns, query, pc, ran, declined, llm_calls, envelope, raised,
          daily_in, anomalies, conf_in, conf_out, columns, previous,
          cmp_in, cmp_out, bd_in, breakdown, flt_in, flt_out, tokens, date_info,
          extracted,
          cache, max_size, now, ticks, cache_out>>

routerVars == <<df, key_columns, query, pc, ran, declined, llm_calls, envelope, raised>>
anomalyVars == <<daily_in, anomalies>>
confVars == <<conf_in, conf_out>>
comparisonVars == <<cmp_in, cmp_out, bd_in, breakdown>>
filterVars == <<flt_in, flt_out>>
dateRangeVars == <<tokens, date_info, extracted>>
cacheVars == <<cache, max_size, now, ticks, cache_out>>
auxVars == <<comparisonVars, filterVars, dateRangeVars, cacheVars>>

None == "None"

(***************************************************************************)
(* Bounds                                                                  *)
(***************************************************************************)
MaxRows == 2
MaxDays == 18
MaxCount == 2
SpikeCount == 18
MaxNullRows == 1
MaxConfRows == 11

\* entities of each kind found in a query, and the N of 'top N'
MaxEntities == 2

MaxTop == 2

\* cache keys in use, the largest max_size, and the clock advances of a run
MaxKeys == 3

MaxCacheSize == 2

MaxTicks == 3

\* backend calls of a run of answer_with_enhanced_llm
MaxCalls == 3

\* tokens of a text given to the date-range extractor
MaxTokens == 5

\* rows of a table given to the filter resolver
MaxFilterRows == 2

\* words of a query given to the code and month extractors
MaxWords == 3

\* rows of a frame given to build_detailed_breakdown, and the distinct values
\* a column of it can hold
MaxBreakdownRows == 6

MaxValues == 6

(***************************************************************************)
(* Generic helpers                                                         *)
(***************************************************************************)
RECURSIVE SumSeq(_)
SumSeq(s) == IF s = <<>> THEN 0 ELSE Head(s) + SumSeq(Tail(s))

Min2(a, b) == IF a < b THEN a ELSE b
Max2(a, b) == IF a > b THEN a ELSE b

RECURSIVE Dedupe(_)
\* list(dict.fromkeys(xs)): first occurrences, order kept
Dedupe(s) ==
    IF s = <<>> THEN <<>>
    ELSE LET rest == Dedupe(SelectSeq(Tail(s), LAMBDA x : x # Head(s)))
         IN  <<Head(s)>> \o rest

SeqToSet(s) == {s[i] : i \in 1..Len(s)}

(***************************************************************************)
(* The query vocabulary.  A query is a non-empty set of phrases; its text  *)
(* is those phrases in the order of PhraseOrder, separated by blanks.      *)
(* KeywordsIn(p) lists the keywords of the source's keyword lists that     *)
(* occur as substrings of the phrase p ("kw in q" in the source).          *)
(***************************************************************************)
PhraseOrder == <<"most events", "which month", "anomaly", "vs", "gb-651",
                 "ea-119", "trend", "august", "this">>

Phrases == SeqToSet(PhraseOrder)

Queries == (SUBSET Phrases) \ {{}}

KeywordsIn(p) ==
    CASE p = "most events" -> {"most events", "most", "event"}
      [] p = "which month" -> {"which month", "month"}
      [] p = "anomaly"     -> {"anomaly"}
      [] p = "vs"          -> {"vs"}
      [] p = "trend"       -> {"trend"}
      [] p = "august"      -> {"august"}
      [] p = "this"        -> {"this"}
      [] OTHER             -> {}

\* any(kw in q for kw in keywords)
AnyIn(keywords, q) == \E p \in q : KeywordsIn(p) \cap keywords # {}

QueryText(q) == SelectSeq(PhraseOrder, LAMBDA p : p \in q)

\* query.upper(), word by word
Upper(p) ==
    CASE p = "gb-651" -> "GB-651"
      [] p = "ea-119" -> "EA-119"
      [] p = "gb651"  -> "GB651"
      [] OTHER        -> p

\* matches of r'\b([A-Z]{2,}-\d+[A-Z]*)\b' in the upper-cased phrase
HyphenCodesIn(p) ==
    IF Upper(p) \in {"GB-651", "EA-119"} THEN <<Upper(p)>> ELSE <<>>

\* matches of r'\b([A-Z]{2,}\d+[A-Z]*)\b' in the upper-cased phrase
PlainCodesIn(p) ==
    IF Upper(p) = "GB651" THEN <<Upper(p)>> ELSE <<>>

RECURSIVE FindAll(_, _)
\* re.findall over the query text, phrase by phrase; kind selects the pattern
FindAll(kind, text) ==
    IF text = <<>> THEN <<>>
    ELSE (IF kind = "hyphen" THEN HyphenCodesIn(Head(text)) ELSE PlainCodesIn(Head(text)))
         \o FindAll(kind, Tail(text))

\* found_codes takes every match of the first pattern, then every match of
\* the second
ExtractCodes(text) ==
    Dedupe(FindAll("hyphen", text) \o FindAll("plain", text))

extract_equipment_codes(q) == ExtractCodes(QueryText(q))

\* months_map of parse_month_from_query
MonthNamesOf(m) ==
    CASE m = 1  -> {"januari", "january", "jan"}
      [] m = 2  -> {"februari", "february", "feb"}
      [] m = 3  -> {"maret", "march", "mar"}
      [] m = 4  -> {"april", "apr"}
      [] m = 5  -> {"mei", "may"}
      [] m = 6  -> {"juni", "june", "jun"}
      [] m = 7  -> {"juli", "july", "jul"}
      [] m = 8  -> {"agustus", "august", "aug", "ags"}
      [] m = 9  -> {"september", "sept", "sep"}
      [] m = 10 -> {"oktober", "october", "oct", "okt"}
      [] m = 11 -> {"november", "nov"}
      [] OTHER  -> {"desember", "december", "des", "dec"}

MonthNames == UNION {MonthNamesOf(m) : m \in 1..12}

\* the names of the table that are proper substrings of another name
NameInsideName ==
    {<<"jan", "januari">>, <<"jan", "january">>, <<"feb", "februari">>,
     <<"feb", "february">>, <<"mar", "maret">>, <<"mar", "march">>,
     <<"apr", "april">>, <<"jun", "juni">>, <<"jun", "june">>, <<"jul", "juli">>,
     <<"jul", "july">>, <<"aug", "august">>, <<"sep", "sept">>,
     <<"sep", "september">>, <<"sept", "september">>, <<"oct", "october">>,
     <<"okt", "oktober">>, <<"nov", "november">>, <<"des", "desember">>,
     <<"dec", "december">>}

\* month_str in q, for a word of the query that is a name of the table
OccursIn(month_str, word) == month_str = word \/ <<month_str, word>> \in NameInsideName

\* the loop of parse_month_from_query over one word of the query
MonthsOfWord(word) ==
    {m \in 1..12 : \E month_str \in MonthNamesOf(m) :
                       OccursIn(month_str, word) /\ Len(month_str) > 3}

\* month numbers of the name variants longer than 3 characters found in the phrase
MonthsIn(p) == IF p = "august" THEN {8} ELSE {}

parse_month_from_query(q) == UNION {MonthsIn(p) : p \in q}

\* The text parse_date_range_from_query reads, as a sequence of tokens
\* separated by blanks: one- or two-digit numbers, month names, the word
\* "tanggal", the separator "-", and other words.
DayTokens == {"10", "17", "31"}

\* int(match.group(n))
DayValue(tok) == CASE tok = "10" -> 10 [] tok = "17" -> 17 [] OTHER -> 31

\* one month name that parse_month_from_query takes too ("august") and one it
\* leaves out as too short ("sep")
MonthTokens == {"august", "sep"}

MonthNumber(tok) == IF tok = "august" THEN 8 ELSE 9

\* [-–to/sd] and [-–sd/] stand for ONE character: "-" matches, the word "to"
\* does not (its "o" is not a digit)
Separator == "-"

DateTokens == DayTokens \cup MonthTokens \cup {"tanggal", Separator, "to"}

\* the phrases of the router vocabulary hold no number followed by a month
\* name and no "tanggal": to the extractor they are a month name or a word
QueryTokens(q) ==
    [i \in 1..Len(QueryText(q)) |->
        IF QueryText(q)[i] = "august" THEN "august" ELSE "word"]

NoDateInfo == [type |-> None, start_day |-> 0, start_month |-> 0,
               end_day |-> 0, end_month |-> 0, day |-> 0]

\* (\d{1,2})\s+(MONTH)\s*[-–to/sd]\s*(\d{1,2})\s+(MONTH) matches at token i
CrossMonthAt(toks, i) ==
    /\ i + 4 <= Len(toks)
    /\ toks[i] \in DayTokens
    /\ toks[i + 1] \in MonthTokens
    /\ toks[i + 2] = Separator
    /\ toks[i + 3] \in DayTokens
    /\ toks[i + 4] \in MonthTokens

\* tanggal\s*(\d{1,2})\s*[-–sd/]\s*(\d{1,2}) matches at token i
SameMonthAt(toks, i) ==
    /\ i + 3 <= Len(toks)
    /\ toks[i] = "tanggal"
    /\ toks[i + 1] \in DayTokens
    /\ toks[i + 2] = Separator
    /\ toks[i + 3] \in DayTokens

\* tanggal\s*(\d{1,2})\b matches at token i
SingleDayAt(toks, i) ==
    /\ i + 1 <= Len(toks)
    /\ toks[i] = "tanggal"
    /\ toks[i + 1] \in DayTokens

\* re.search: the leftmost position where the pattern matches, 0 if none
FirstMatch(hits) ==
    IF hits = {} THEN 0 ELSE CHOOSE i \in hits : \A j \in hits : i <= j

parse_date_range_from_query(toks) ==
    LET c == FirstMatch({i \in 1..Len(toks) : CrossMonthAt(toks, i)})
        m == FirstMatch({i \in 1..Len(toks) : SameMonthAt(toks, i)})
        d == FirstMatch({i \in 1..Len(toks) : SingleDayAt(toks, i)})
    IN  IF c # 0
        THEN [NoDateInfo EXCEPT !.type = "cross_month",
                                !.start_day = DayValue(toks[c]),
                                !.start_month = MonthNumber(toks[c + 1]),
                                !.end_day = DayValue(toks[c + 3]),
                                !.end_month = MonthNumber(toks[c + 4])]
        ELSE IF m # 0
        THEN [NoDateInfo EXCEPT !.type = "same_month",
                                !.start_day = DayValue(toks[m + 1]),
                                !.end_day = DayValue(toks[m + 3])]
        ELSE IF d # 0
        THEN [NoDateInfo EXCEPT !.type = "single_day", !.day = DayValue(toks[d + 1])]
        ELSE NoDateInfo

detect_query_intent(q) ==
    LET anomaly == {"anomali", "anomaly", "lonjakan", "spike", "abnormal",
                    "tidak normal", "unusual", "outlier"}
        comparison == {"bandingkan", "vs", "versus", "dibanding", "compare",
                       "perbandingan"}
        trend == {"trend", "pola", "grafik", "chart", "pattern", "graph"}
        top == {"paling", "tertinggi", "terbanyak", "top", "most"}
        detected == (IF AnyIn(anomaly, q) THEN {"anomaly"} ELSE {})
                    \cup (IF AnyIn(comparison, q) THEN {"comparison"} ELSE {})
                    \cup (IF AnyIn(trend, q) THEN {"trend"} ELSE {})
                    \cup (IF AnyIn(top, q) THEN {"top"} ELSE {})
    IN  IF detected # {} THEN detected ELSE {"general"}

(***************************************************************************)
(* The Event Table                                                         *)
(***************************************************************************)
NaT == [month |-> 0, day |-> 0]

DateValues == {NaT, [month |-> 8, day |-> 1], [month |-> 9, day |-> 1]}

IdValues == {"GB-651", "EA-119"}

Rows == [id : IdValues, date : DateValues]

DateKey(d) == d.month * 100 + d.day

\* No operator below depends on the order of the rows (all of them filter and
\* count), so the tables are enumerated up to row order.
RowKey(r) == DateKey(r.date) * 2 + (IF r.id = "GB-651" THEN 0 ELSE 1)

Tables ==
    {t \in UNION {[1..n -> Rows] : n \in 0..MaxRows} :
        \A i \in 1..(Len(t) - 1) : RowKey(t[i]) <= RowKey(t[i + 1])}

KeyColumnMaps == [date : {"Timestamp", None}, identifier : {"Equipment", None}]

notna(t) == SelectSeq(t, LAMBDA r : r.date # NaT)

\* str.contains(code, case=False): no identifier value of the table properly
\* contains another code, so containment is equality here
Contains(cell, code) == cell = code

\* df.isnull().sum().sum() / (len(df) * len(df.columns)) > 0.3, as integers:
\* the table has the two columns Equipment and Timestamp, identifiers are
\* never null, so the null cells are the NaT dates
NullCells(t) == Len(t) - Len(notna(t))
Columns == {"Equipment", "Timestamp"}

\* what calculate_confidence reads of a table: len(df), len(df.columns) and
\* df.isnull().sum().sum()
Frame(t) == [rows |-> Len(t), cols |-> Cardinality(Columns), nulls |-> NullCells(t)]

(***************************************************************************)
(* Filter sets: functions from filter kind to the matched value            *)
(***************************************************************************)
NoFilters == [k \in {} |-> None]

\* filters.get(kind), as Python truthiness
Truthy(filters, kind) ==
    /\ kind \in DOMAIN filters
    /\ filters[kind] # (CASE kind = "months" -> {}
                          [] kind = "day" -> 0
                          [] kind = "comparison_identifiers" -> <<>>
                          [] kind = "date_range" -> <<>>
                          [] kind = "date_range_full" -> <<>>
                          [] OTHER -> None)

(***************************************************************************)
(* utils/helpers.py: calculate_confidence                                  *)
(* frame is the filtered table as [rows, cols, nulls]                      *)
(***************************************************************************)
AmbiguousTerms == {"itu", "ini", "nya", "tersebut", "yang tadi", "that", "this"}

\* seeded fault: the identifier bonus without its cap
IdentifierBonusUncapped(confidence) == confidence + 10

IdentifierBonus(confidence) == Min2(confidence + 10, 100)

\* seeded fault: the date bonus without its cap
DateBonusUncapped(confidence) == confidence + 5

DateBonus(confidence) == Min2(confidence + 5, 100)

\* seeded fault: a heavier penalty for fewer than 3 rows
ResultCountFactorSteep(result_count) ==
    IF result_count < 3 THEN 30
    ELSE IF result_count < 10 THEN 10
    ELSE 0

ResultCountFactor(result_count) ==
    IF result_count < 3 THEN 20
    ELSE IF result_count < 10 THEN 10
    ELSE 0

calculate_confidence(frame, filters, q, method) ==
    IF frame.rows = 0 THEN 0
    ELSE
    LET c1 == 100 - ResultCountFactor(frame.rows)
        c2 == IF DOMAIN filters = {} THEN c1 - 15 ELSE c1
        c3 == IF AnyIn(AmbiguousTerms, q) THEN c2 - 10 ELSE c2
        c4 == IF method = "identifier_search" THEN IdentifierBonus(c3)
              ELSE IF method = "llm_analysis" THEN c3 - 5
              ELSE c3
        \* null_ratio > 0.3
        c5 == IF frame.nulls * 10 > 3 * (frame.rows * frame.cols) THEN c4 - 15 ELSE c4
        c6 == IF Truthy(filters, "months") \/ Truthy(filters, "day")
              THEN DateBonus(c5) ELSE c5
    IN  Max2(c6, 0)

(***************************************************************************)
(* services/filter_service.py: FilterService.extract_filters_from_query    *)
(***************************************************************************)
FilterComparisonKeywords ==
    {"bandingkan", "vs", "versus", "dibanding", "compare", "perbandingan", "dan"}

MonthFilter(t, months) == SelectSeq(t, LAMBDA r : r.date.month \in months)

\* seeded fault: an identifier restriction that keeps every row
EveryRow(t, code) == t

IdentifierFilter(t, code) == SelectSeq(t, LAMBDA r : Contains(r.id, code))

\* datetime.now().year, the year taken for an empty frame
CurrentYear == 2024

\* a calendar date as one number, for comparisons of .dt.date
DateNum(year, month, day) == year * 10000 + month * 100 + day

\* str(date): the ISO text "YYYY-MM-DD", as its three fields
DateStr(year, month, day) == <<year, month, day>>

\* pd.to_datetime(text).date()
ParseDateStr(text) == DateNum(text[1], text[2], text[3])

\* df[date_col].dt.year.mode()[0] on a frame without missing dates: the least
\* of the most frequent years
ModeYear(t) ==
    LET years == {t[i].year : i \in 1..Len(t)}
        n(y) == Len(SelectSeq(t, LAMBDA r : r.year = y))
    IN  CHOOSE y \in years : \A z \in years : n(y) > n(z) \/ (n(y) = n(z) /\ y <= z)

\* the days of a month of the calendar, as datetime(year, month, day) checks
\* them
DaysInMonth(year, month) ==
    CASE month \in {4, 6, 9, 11} -> 30
      [] month = 2 -> IF year % 4 = 0 /\ (year % 100 # 0 \/ year % 400 = 0) THEN 29 ELSE 28
      [] OTHER -> 31

\* datetime(year, month, day) does not raise ValueError
ValidDate(year, month, day) ==
    month \in 1..12 /\ day >= 1 /\ day <= DaysInMonth(year, month)

DateRangeFullFilter(t, lo, hi) ==
    SelectSeq(t, LAMBDA r : /\ r.date # NaT
                            /\ DateNum(r.year, r.date.month, r.date.day) >= lo
                            /\ DateNum(r.year, r.date.month, r.date.day) <= hi)

DayRangeFilter(t, start_day, end_day) ==
    SelectSeq(t, LAMBDA r : r.date # NaT /\ r.date.day >= start_day /\ r.date.day <= end_day)

DayFilter(t, day) == SelectSeq(t, LAMBDA r : r.date # NaT /\ r.date.day = day)

\* The cross_month branch.  On an empty frame the year is the current one.
\* With a missing date in the column .dt.year holds floats: if every date is
\* missing mode() is empty and mode()[0] raises before the try; otherwise
\* datetime(year, ...) raises TypeError on the float, and the bare except
\* leaves the frame and the filters as they were.  A day the month does not
\* have raises ValueError in the same try, with the same outcome.
CrossMonthBranch(t, info) ==
    LET year == IF Len(t) = 0 THEN CurrentYear ELSE ModeYear(notna(t))
        lo == DateNum(year, info.start_month, info.start_day)
        hi == DateNum(year, info.end_month, info.end_day)
    IN  IF Len(t) > 0 /\ Len(notna(t)) = 0
        THEN [df |-> t, applied |-> FALSE, raised |-> TRUE, range |-> <<>>]
        ELSE IF Len(notna(t)) < Len(t)
        THEN [df |-> t, applied |-> FALSE, raised |-> FALSE, range |-> <<>>]
        ELSE IF ~ValidDate(year, info.start_month, info.start_day)
                \/ ~ValidDate(year, info.end_month, info.end_day)
        THEN [df |-> t, applied |-> FALSE, raised |-> FALSE, range |-> <<>>]
        ELSE [df |-> DateRangeFullFilter(t, lo, hi), applied |-> TRUE, raised |-> FALSE,
              range |-> <<DateStr(year, info.start_month, info.start_day),
                          DateStr(year, info.end_month, info.end_day)>>]

\* the first of self.df[col].dropna().unique() that the query mentions, or None
FirstMentioned(t, mentioned) ==
    LET hits == {i \in 1..Len(t) : t[i].category \in mentioned}
    IN  IF hits = {} THEN None
        ELSE t[CHOOSE i \in hits : \A j \in hits : i <= j].category

CategoryFilter(t, value) == SelectSeq(t, LAMBDA r : r.category = value)

\* FilterService(t, key_columns).extract_filters_from_query, given what the
\* helpers find in the query: the months, the date range, the equipment
\* codes, a comparison keyword, and the category values it mentions
ExtractFilters(t, date_col, identifier_col, category_col, found_months, info, found_identifiers, comparison_keyword, mentioned) ==
    LET monthsOn == found_months # {} /\ date_col # None
        df1 == IF monthsOn THEN MonthFilter(t, found_months) ELSE t
        f1 == IF monthsOn THEN "months" :> found_months ELSE NoFilters
        d1 == IF monthsOn THEN <<"month">> ELSE <<>>
        rangeOn == info.type # None /\ date_col # None
        cross == IF rangeOn /\ info.type = "cross_month"
                 THEN CrossMonthBranch(df1, info)
                 ELSE [df |-> df1, applied |-> FALSE, raised |-> FALSE, range |-> <<>>]
        df1r == CASE rangeOn /\ info.type = "cross_month" -> cross.df
                  [] rangeOn /\ info.type = "same_month" ->
                       DayRangeFilter(df1, info.start_day, info.end_day)
                  [] rangeOn /\ info.type = "single_day" ->
                       DayFilter(df1, info.day)
                  [] OTHER -> df1
        f1r == CASE cross.applied -> ("date_range_full" :> cross.range) @@ f1
                 [] rangeOn /\ info.type = "same_month" ->
                      ("date_range" :> <<info.start_day, info.end_day>>) @@ f1
                 [] rangeOn /\ info.type = "single_day" ->
                      ("day" :> info.day) @@ f1
                 [] OTHER -> f1
        d1r == IF cross.applied \/ (rangeOn /\ info.type \in {"same_month", "single_day"})
               THEN Append(d1, "date") ELSE d1
        idOn == found_identifiers # <<>> /\ identifier_col # None
        is_comparison == comparison_keyword /\ Len(found_identifiers) >= 2
        df2 == IF idOn /\ ~is_comparison
               THEN IdentifierFilter(df1r, found_identifiers[1]) ELSE df1r
        f2 == IF ~idOn THEN f1r
              ELSE IF is_comparison THEN ("comparison_identifiers" :> found_identifiers) @@ f1r
              ELSE ("identifier" :> found_identifiers[1]) @@ f1r
        d2 == IF idOn /\ ~is_comparison THEN Append(d1r, "equipment") ELSE d1r
        \* of the roles category, area, status and severity the model binds
        \* category at most
        value == IF category_col = None THEN None ELSE FirstMentioned(t, mentioned)
        df3 == IF value # None THEN CategoryFilter(df2, value) ELSE df2
        f3 == IF value # None THEN (category_col :> value) @@ f2 ELSE f2
        d3 == IF value # None THEN Append(d2, "category") ELSE d2
    IN  [df_filtered |-> df3, filters |-> f3, filter_descriptions |-> d3,
         raised |-> cross.raised]

\* the resolver on a query of the router vocabulary
extract_filters_from_query(t, kc, q) ==
    ExtractFilters(t, kc.date, kc.identifier, None, parse_month_from_query(q),
                   parse_date_range_from_query(QueryTokens(q)),
                   extract_equipment_codes(q), AnyIn(FilterComparisonKeywords, q), {})

\* FilterService.apply_time_filters
apply_time_filters(df_input, date_col, filters) ==
    IF date_col = None THEN df_input
    ELSE LET r1 == IF Truthy(filters, "months")
                   THEN MonthFilter(df_input, filters["months"]) ELSE df_input
             r2 == IF Truthy(filters, "date_range")
                   THEN DayRangeFilter(r1, filters["date_range"][1], filters["date_range"][2])
                   ELSE r1
             r3 == IF Truthy(filters, "date_range_full")
                   THEN DateRangeFullFilter(r2, ParseDateStr(filters["date_range_full"][1]),
                                                ParseDateStr(filters["date_range_full"][2]))
                   ELSE r2
         IN  IF Truthy(filters, "day") THEN DayFilter(r3, filters["day"]) ELSE r3

(***************************************************************************)
(* services/anomaly_service.py: AnomalyService.detect_anomalies            *)
(*                                                                         *)
(* The detector reads of its table only the rows with a null date and the  *)
(* per-day row counts, so a table is given here as [nulls, days]: days is  *)
(* daily_counts, one count per distinct calendar day in date order.        *)
(* Means, deviations and quantiles are compared exactly, cross-multiplied  *)
(* into integers.                                                          *)
(***************************************************************************)
RECURSIVE Insert(_, _)
Insert(x, s) ==
    IF s = <<>> THEN <<x>>
    ELSE IF x <= Head(s) THEN <<x>> \o s
    ELSE <<Head(s)>> \o Insert(x, Tail(s))

RECURSIVE SortAsc(_)
SortAsc(s) == IF s = <<>> THEN <<>> ELSE Insert(Head(s), SortAsc(Tail(s)))

\* 4 * Series.quantile(k/4), linear interpolation between the order statistics
Quantile4(sorted, k) ==
    LET h == (Len(sorted) - 1) * k
        i == h \div 4
        r == h % 4
    IN  4 * sorted[i + 1] + (IF r = 0 THEN 0 ELSE r * (sorted[i + 2] - sorted[i + 1]))

DailyStats(days) ==
    LET sorted == SortAsc(days)
    IN  [n     |-> Len(days),
         sum   |-> SumSeq(days),
         sumsq |-> SumSeq([i \in 1..Len(days) |-> days[i] * days[i]]),
         q1x4  |-> Quantile4(sorted, 1),
         medx4 |-> Quantile4(sorted, 2),
         q3x4  |-> Quantile4(sorted, 3),
         min   |-> sorted[1],
         max   |-> sorted[Len(sorted)]]

\* n * (n - 1) * variance (ddof = 1)
ScaledVar(st) == st.n * st.sumsq - st.sum * st.sum

\* count > mean + (num/den) * std; std is NaN for a single day, and every
\* comparison with NaN is false
ExceedsMeanPlusStd(count, st, num, den) ==
    LET d == st.n * count - st.sum
    IN  /\ st.n >= 2
        /\ d > 0
        /\ den * den * d * d * (st.n - 1) > num * num * st.n * ScaledVar(st)

\* daily_counts > mean + 2.5 * std
ExceedsZscoreThreshold(count, st) == ExceedsMeanPlusStd(count, st, 5, 2)

\* daily_counts > q3 + 1.5 * (q3 - q1)
ExceedsIqrUpper(count, st) == 8 * count > 5 * st.q3x4 - 3 * st.q1x4

\* daily_counts > median * 3
ExceedsSpikeThreshold(count, st) == 4 * count > 3 * st.medx4

\* seeded fault: the spike rule left out of the union
AllAnomalyDatesWithoutSpikeRule(days, st) ==
    {i \in 1..Len(days) : ExceedsZscoreThreshold(days[i], st)}
    \cup {i \in 1..Len(days) : ExceedsIqrUpper(days[i], st)}

\* all_anomaly_dates: the union of the three flagged-day sets, as day indexes
AllAnomalyDates(days, st) ==
    {i \in 1..Len(days) : ExceedsZscoreThreshold(days[i], st)}
    \cup {i \in 1..Len(days) : ExceedsIqrUpper(days[i], st)}
    \cup {i \in 1..Len(days) : ExceedsSpikeThreshold(days[i], st)}

\* zscore = (count - mean) / std if std > 0 else 0, compared with num/den > 0
ZscoreAbove(count, st, num, den) ==
    /\ st.n >= 2
    /\ ScaledVar(st) > 0
    /\ ExceedsMeanPlusStd(count, st, num, den)

\* seeded fault: the critical tier starting above 4 instead of above 3
SeverityCriticalAbove4(count, st) ==
    IF ZscoreAbove(count, st, 4, 1) THEN "critical"
    ELSE IF ZscoreAbove(count, st, 5, 2) THEN "high"
    ELSE IF ZscoreAbove(count, st, 2, 1) THEN "medium"
    ELSE "low"

Severity(count, st) ==
    IF ZscoreAbove(count, st, 3, 1) THEN "critical"
    ELSE IF ZscoreAbove(count, st, 5, 2) THEN "high"
    ELSE IF ZscoreAbove(count, st, 2, 1) THEN "medium"
    ELSE "low"

RECURSIVE InsertByCountDesc(_, _)
InsertByCountDesc(a, s) ==
    IF s = <<>> THEN <<a>>
    ELSE IF a.count > Head(s).count THEN <<a>> \o s
    ELSE <<Head(s)>> \o InsertByCountDesc(a, Tail(s))

RECURSIVE SortByZscoreDesc(_)
\* sorted(anomaly_details, key=zscore, reverse=True), stable: within one series
\* the z-score grows with the count, and counts this small never round to the
\* same two-decimal z-score unless they are equal
SortByZscoreDesc(s) ==
    IF s = <<>> THEN <<>>
    ELSE LET rest == SortByZscoreDesc(SubSeq(s, 1, Len(s) - 1))
         IN  InsertByCountDesc(s[Len(s)], SubSeq(rest, 1, Len(rest)))

AnomalyDetails(days, st) ==
    LET flagged == SelectSeq([i \in 1..Len(days) |-> i],
                             LAMBDA i : i \in AllAnomalyDates(days, st))
    IN  [k \in 1..Len(flagged) |->
            [date     |-> flagged[k],
             count    |-> days[flagged[k]],
             severity |-> Severity(days[flagged[k]], st)]]

\* len(df_valid) < 7
InsufficientData(tbl) == SumSeq(tbl.days) < 7

detect_anomalies(tbl, kc) ==
    IF kc.date = None
    THEN [detected |-> FALSE, reason |-> "no_date_column",
          keys |-> {"detected", "reason", "message"}, anomalies |-> <<>>]
    ELSE IF InsufficientData(tbl)
    THEN [detected |-> FALSE, reason |-> "insufficient_data",
          keys |-> {"detected", "reason", "message"}, anomalies |-> <<>>]
    ELSE LET st == DailyStats(tbl.days)
         IN  IF AllAnomalyDates(tbl.days, st) = {}
             THEN [detected |-> FALSE, reason |-> "no_anomalies",
                   keys |-> {"detected", "reason", "message", "statistics"},
                   anomalies |-> <<>>]
             ELSE [detected |-> TRUE, reason |-> None,
                   keys |-> {"detected", "count", "anomalies", "statistics"},
                   anomalies |-> SortByZscoreDesc(AnomalyDetails(tbl.days, st))]

(***************************************************************************)
(* Grouping a table by calendar day (groupby('date_only').size())          *)
(***************************************************************************)
RECURSIVE SortedDates(_)
SortedDates(D) ==
    IF D = {} THEN <<>>
    ELSE LET m == CHOOSE d \in D : \A e \in D : DateKey(d) <= DateKey(e)
         IN  <<m>> \o SortedDates(D \ {m})

ValidDates(t) == SortedDates({t[i].date : i \in 1..Len(t)} \ {NaT})

GroupByDate(t) ==
    LET dates == ValidDates(t)
    IN  [nulls |-> NullCells(t),
         days  |-> [k \in 1..Len(dates) |->
                      Len(SelectSeq(t, LAMBDA r : r.date = dates[k]))]]

(***************************************************************************)
(* services/graph_service.py                                               *)
(***************************************************************************)
GraphKeywords == {"trend", "grafik", "chart", "graph", "pola", "pattern",
                  "distribusi waktu", "timeline", "visualize", "visualisasi"}

should_generate_graph(q) == AnyIn(GraphKeywords, q)

\* a chart payload: its type tag and, for a comparison chart, its datasets;
\* NoGraph stands for the None a generator returns when there is no chart
NoGraph == [type |-> None, datasets |-> <<>>]

generate_xy_graph_data(t, kc) ==
    IF kc.date = None THEN NoGraph
    ELSE IF Len(notna(t)) = 0 THEN NoGraph
    ELSE [type |-> "xy_line", datasets |-> <<>>]

\* GraphService._apply_filters: only the month filter can be present here
ApplyGraphFilters(t, filters) ==
    IF Truthy(filters, "months") THEN MonthFilter(t, filters["months"]) ELSE t

\* seeded fault: each series counted over its own dates only
OwnDates(all_dates, own_dates) == own_dates

\* for date in all_dates: every series is counted over the common axis
CountedDates(all_dates, own_dates) == all_dates

\* daily_counts.get(date, 0) of df_valid.groupby('date_only').size()
DailyCount(df_valid, date) == Len(SelectSeq(df_valid, LAMBDA r : r.date = date))

generate_comparison_graph_data(t, kc, equipments, filters) ==
    IF kc.date = None \/ kc.identifier = None THEN NoGraph
    ELSE LET equipment_data ==
                 [i \in 1..Len(equipments) |->
                     notna(ApplyGraphFilters(IdentifierFilter(t, equipments[i]),
                                             filters))]
             all_dates ==
                 SortedDates(UNION {SeqToSet(ValidDates(equipment_data[i]))
                                    : i \in 1..Len(equipments)})
         IN  IF Len(all_dates) = 0 THEN NoGraph
             ELSE [type |-> "comparison",
                   datasets |->
                       [i \in 1..Len(equipments) |->
                           LET df_valid == equipment_data[i]
                               counted == CountedDates(all_dates, ValidDates(df_valid))
                           IN  [label  |-> equipments[i],
                                dates  |-> all_dates,
                                counts |-> [k \in 1..Len(counted) |->
                                               DailyCount(df_valid, counted[k])],
                                \* int(daily_counts.sum()), 0 without data
                                total  |-> Len(df_valid)]]]

(***************************************************************************)
(* services/temporal_service.py: handle_temporal_analysis                  *)
(***************************************************************************)
handle_temporal_analysis(q, t, kc) ==
    IF kc.date = None THEN None
    ELSE IF Len(notna(t)) = 0 THEN None
    ELSE LET asking_month == AnyIn({"month", "bulan"}, q)
             asking_date == AnyIn({"date", "tanggal"}, q)
             asking_day == AnyIn({"day", "hari"}, q) /\ ~asking_date
         IN  IF asking_month \/ asking_date \/ asking_day THEN "report" ELSE None

(***************************************************************************)
(* services/comparison_service.py: handle_comparison_query                 *)
(* The result is [kind, exc, results]: kind "report", "none" (declined) or *)
(* "raise" with the exception in exc; results lists [entity, count].       *)
(***************************************************************************)
ServiceComparisonKeywords ==
    {"bandingkan", "vs", "versus", "dibanding", "compare", "perbandingan", "comparison"}

Declined == [kind |-> "none", exc |-> "none", results |-> <<>>, summary |-> <<>>]

Raises(e) == [kind |-> "raise", exc |-> e, results |-> <<>>, summary |-> <<>>]

RECURSIVE InsertResultByCountDesc(_, _)
InsertResultByCountDesc(a, s) ==
    IF s = <<>> THEN <<a>>
    ELSE IF a.count > Head(s).count THEN <<a>> \o s
    ELSE <<Head(s)>> \o InsertResultByCountDesc(a, Tail(s))

RECURSIVE SortResultsByCountDesc(_)
\* sorted(results.items(), key=count, reverse=True): stable, so entities with
\* equal counts keep the order in which they were inserted
SortResultsByCountDesc(s) ==
    IF s = <<>> THEN <<>>
    ELSE InsertResultByCountDesc(s[Len(s)],
                                 SortResultsByCountDesc(SubSeq(s, 1, Len(s) - 1)))

\* the Status column of one row of the summary table
SummaryStatus(count, max_count, min_count) ==
    IF count = max_count THEN "highest"
    ELSE IF count = min_count THEN "lowest"
    ELSE "normal"

\* the summary table of the report; results is not empty
SummaryTable(results) ==
    LET sorted_results == SortResultsByCountDesc(results)
        counts == {results[i].count : i \in 1..Len(results)}
        max_count == CHOOSE c \in counts : \A d \in counts : d <= c
        min_count == CHOOSE c \in counts : \A d \in counts : c <= d
    IN  [i \in 1..Len(sorted_results) |->
            [entity |-> sorted_results[i].entity,
             count  |-> sorted_results[i].count,
             status |-> SummaryStatus(sorted_results[i].count, max_count, min_count)]]

\* build_enhanced_comparison_report: the summary table is written first, and
\* total_all divides the highest count in the closing insights
build_enhanced_comparison_report(results) ==
    LET total_all == SumSeq([i \in 1..Len(results) |-> results[i].count])
    IN  IF total_all = 0 THEN Raises("ZeroDivisionError")
        ELSE [kind |-> "report", exc |-> "none", results |-> results,
              summary |-> SummaryTable(results)]

\* counts.head(5) of the dimensions after the third
OtherDimensionsLimit == 5

\* the roles build_detailed_breakdown reads, and those it lists in full when
\* show_all is set
BreakdownRoles ==
    {"identifier", "equipment_name", "pi_tag", "category", "area", "status",
     "severity", "limit_type"}

HierarchyRoles == {"identifier", "equipment_name", "pi_tag"}

\* df[col].value_counts() as a dict: every distinct value with its count
value_counts(column) ==
    [v \in {column[i] : i \in 1..Len(column)} |->
        Cardinality({i \in 1..Len(column) : column[i] = v})]

\* the sets of values counts.head(limit) can keep: the most frequent ones;
\* which of several equally frequent values come first is up to the sort
HeadSets(counts, limit) ==
    {kept \in SUBSET (DOMAIN counts) :
        /\ Cardinality(kept) = Min2(limit, Cardinality(DOMAIN counts))
        /\ \A v \in kept : \A w \in (DOMAIN counts) \ kept : counts[v] >= counts[w]}

\* build_detailed_breakdown(df, key_columns, show_all=True) on a frame whose
\* bound columns all hold the same values; kept is what head(5) keeps
build_detailed_breakdown(column, bound, kept) ==
    LET counts == value_counts(column)
    IN  [role \in bound |->
            IF role \in HierarchyRoles THEN counts
            ELSE [v \in kept |-> counts[v]]]

EquipmentResults(t, kc, equipments, found_months) ==
    [i \in 1..Len(equipments) |->
        LET df_eq == IdentifierFilter(t, equipments[i])
            df_time == IF kc.date # None /\ found_months # {}
                       THEN MonthFilter(df_eq, found_months) ELSE df_eq
        IN  [entity |-> equipments[i], count |-> Len(df_time)]]

MonthResults(t, months) ==
    [i \in 1..Len(months) |->
        [entity |-> months[i], count |-> Len(MonthFilter(t, {months[i]}))]]

EquipmentMonthResults(t, equipment, months) ==
    [i \in 1..Len(months) |->
        [entity |-> <<equipment, months[i]>>,
         count |-> Len(MonthFilter(IdentifierFilter(t, equipment), {months[i]}))]]

RECURSIVE SetToSeq(_)
\* list(set(found_months)): small integers iterate in ascending order
SetToSeq(S) ==
    IF S = {} THEN <<>>
    ELSE LET m == CHOOSE x \in S : \A y \in S : x <= y
         IN  <<m>> \o SetToSeq(S \ {m})

\* re.search(r'top\s*(\d+)', q): whether it matched, and int(group(1))
NoTop == [matched |-> FALSE, n |-> 0]

\* seeded fault: a "top N" rule that fires for every matched N
TopMatched(top) == top.matched

\* top_n = int(...) if top_match else None, used as a condition: None and 0
\* are both false
TopRequested(top) == top.matched /\ top.n # 0

\* df[identifier_col].value_counts().head(n).index.tolist(): the codes by
\* falling frequency; codes of equal frequency are taken in table order
TopCodes(t, n) ==
    LET codes == Dedupe([i \in 1..Len(t) |-> t[i].id])
        counted == [i \in 1..Len(codes) |->
                       [entity |-> codes[i],
                        count |-> Len(SelectSeq(t, LAMBDA r : r.id = codes[i]))]]
        ranked == SortResultsByCountDesc(counted)
    IN  [i \in 1..Min2(n, Len(ranked)) |-> ranked[i].entity]

\* equipment is the single code of an equipment_month comparison
NoComparison == [type |-> None, entities |-> <<>>, equipment |-> None]

\* STEP 2 of handle_comparison_query: the first rule that matches decides
ComparisonType(t, top, identifier_col, found_equipments, found_areas, found_categories, found_months) ==
    IF TopRequested(top) /\ identifier_col # None
    THEN [type |-> "equipment", entities |-> TopCodes(t, top.n), equipment |-> None]
    ELSE IF Len(found_equipments) >= 2
    THEN [type |-> "equipment", entities |-> found_equipments, equipment |-> None]
    ELSE IF Len(found_areas) >= 2
    THEN [type |-> "area", entities |-> found_areas, equipment |-> None]
    ELSE IF Len(found_categories) >= 2
    THEN [type |-> "category", entities |-> found_categories, equipment |-> None]
    ELSE IF Len(found_months) >= 2
    THEN IF Len(found_equipments) = 1
         THEN [type |-> "equipment_month", entities |-> found_months,
               equipment |-> found_equipments[1]]
         ELSE [type |-> "month", entities |-> found_months, equipment |-> None]
    ELSE NoComparison

handle_comparison_query(q, t, kc) ==
    IF ~AnyIn(ServiceComparisonKeywords, q) THEN Declined
    ELSE
    LET found_equipments == extract_equipment_codes(q)
        \* no phrase of the vocabulary has the "D-D MONTH" shape or "top N",
        \* and the area and category roles are unbound
        found_months == parse_month_from_query(q)
        months == SetToSeq(found_months)
        chosen == ComparisonType(t, NoTop, kc.identifier, found_equipments,
                                 <<>>, <<>>, months)
    IN  CASE chosen.type = "equipment" ->
               IF kc.identifier = None THEN Raises("KeyError")
               ELSE build_enhanced_comparison_report(
                        EquipmentResults(t, kc, chosen.entities, found_months))
          [] chosen.type = "month" ->
               IF kc.date = None THEN Raises("KeyError")
               ELSE build_enhanced_comparison_report(MonthResults(t, chosen.entities))
          [] chosen.type = "equipment_month" ->
               IF kc.date = None \/ kc.identifier = None THEN Raises("KeyError")
               ELSE build_enhanced_comparison_report(
                        EquipmentMonthResults(t, chosen.equipment, chosen.entities))
          [] OTHER -> Declined

(***************************************************************************)
(* services/identifier_service.py                                          *)
(***************************************************************************)
is_identifier_query(q) ==
    FindAll("hyphen", QueryText(q)) # <<>> \/ FindAll("plain", QueryText(q)) # <<>>

\* the df_found of search_by_identifier, or None when no pattern matches
IdentifierRowsFound(q, t, kc) ==
    LET hyphen == FindAll("hyphen", QueryText(q))
        plain == FindAll("plain", QueryText(q))
        identifier == IF hyphen # <<>> THEN hyphen[1] ELSE plain[1]
        df_found == IF kc.identifier = None THEN <<>>
                    ELSE IdentifierFilter(t, identifier)
        found_months == SetToSeq(parse_month_from_query(q))
    IN  \* single month filter: the first month name found, then break
        IF kc.date # None /\ found_months # <<>>
        THEN MonthFilter(df_found, {found_months[1]})
        ELSE df_found

\* seeded fault: the score computed with the filters found in the query
QueryFilters(filters) == filters

\* the filter set search_by_identifier hands to calculate_confidence: {}
ScoredFilters(filters) == NoFilters

\* the confidence search_by_identifier returns for the rows it found, where
\* filters are the time filters it applied to them
identifier_search_confidence(frame, filters, q) ==
    IF frame.rows = 0 THEN 0
    ELSE calculate_confidence(frame, ScoredFilters(filters), q, "identifier_search")

search_by_identifier(q, t, kc) ==
    IF ~is_identifier_query(q)
    THEN [data |-> None, explanation |-> None, confidence |-> 0, llm |-> FALSE]
    ELSE LET df_found == IdentifierRowsFound(q, t, kc)
         IN  IF Len(df_found) = 0
             THEN [data |-> None, explanation |-> "no_data_found", confidence |-> 0,
                   llm |-> FALSE]
             ELSE [data |-> "records", explanation |-> "search_results",
                   confidence |-> identifier_search_confidence(Frame(df_found), NoFilters, q),
                   llm |-> TRUE]

(***************************************************************************)
(* services/query_router.py: QueryRouter.route                             *)
(*                                                                         *)
(* One action per priority block of route.  pc is the block about to be    *)
(* evaluated; ran lists the stages whose handler was invoked, declined the *)
(* stages whose handler returned nothing, llm_calls the outcome of every   *)
(* call made to the language model backend during the current route.       *)
(***************************************************************************)
StageOrder == <<"temporal", "anomaly", "comparison", "identifier",
                "llm_analysis", "general_llm">>

\* seeded fault: the anomaly block skipped after the temporal block
NextStageSkipping(stage) ==
    CASE stage = "temporal" -> "comparison"
      [] stage = "anomaly" -> "comparison"
      [] stage = "comparison" -> "identifier"
      [] stage = "identifier" -> "llm_analysis"
      [] stage = "llm_analysis" -> "general_llm"

\* the block that route falls through to after the given one
NextStage(stage) ==
    CASE stage = "temporal" -> "anomaly"
      [] stage = "anomaly" -> "comparison"
      [] stage = "comparison" -> "identifier"
      [] stage = "identifier" -> "llm_analysis"
      [] stage = "llm_analysis" -> "general_llm"

LLMOutcomes == {"ok", "fail", "timeout"}

NoEnvelope == [k \in {} |-> None]

TemporalKeywords == {"event terbanyak", "event tersedikit", "most events", "least events"}

TemporalTime == {"bulan apa", "tanggal berapa", "hari apa", "which month", "which date"}

_is_temporal_query(q) == AnyIn(TemporalKeywords, q) /\ AnyIn(TemporalTime, q)

DataKeywords == {"berapa", "jumlah", "rata-rata", "paling", "event", "bulan",
                 "how many", "total", "average", "most", "least", "show", "list"}

_is_data_query(q) == AnyIn(DataKeywords, q)

RouterComparisonKeywords == {"bandingkan", "vs", "versus", "compare", "perbandingan"}

(***************************************************************************)
(* Column assignments of the handlers.  A frame is either the shared event *)
(* table itself or an object derived from it; every assignment of the      *)
(* handlers (df_valid['date_only'] = ... and the like) goes to a frame     *)
(* obtained as  <frame>[<mask>].copy().                                    *)
(***************************************************************************)
SharedFrame == "shared"

\* seeded fault: a handler that keeps working on the frame it was given
SameFrame(frame) == frame

\* df_valid = df[df[date_col].notna()].copy()
DerivedCopy(frame) == "derived"

\* frame[column] = ..., seen from the shared table
AssignColumns(cols, frame, assigned) ==
    IF frame = SharedFrame THEN cols \cup assigned ELSE cols

\* the columns the handlers of a stage assign on some path
AssignedBy(stage) ==
    CASE stage = "temporal" -> {"month", "day", "dow"}
      [] stage = "anomaly" -> {"date_only", "hour", "day_of_week"}
      [] stage = "comparison" -> {"date_only"}
      [] stage = "identifier" -> {"date_only"}
      [] stage = "llm_analysis" -> {"date_only"}
      [] stage = "general_llm" -> {}

\* the shared table's columns once the handlers of a stage have run
ColumnsAfter(stage, cols) ==
    AssignColumns(cols, DerivedCopy(SharedFrame), AssignedBy(stage))

\* return {...}: the route ends with an envelope
Return(stage, env) ==
    /\ envelope' = env
    /\ pc' = "done"
    /\ ran' = Append(ran, stage)
    /\ columns' = ColumnsAfter(stage, columns)
    /\ UNCHANGED <<declined, raised>>

\* the handler gave nothing: fall through to the next block
Decline(stage) ==
    /\ pc' = NextStage(stage)
    /\ ran' = Append(ran, stage)
    /\ declined' = declined \cup {stage}
    /\ columns' = ColumnsAfter(stage, columns)
    /\ UNCHANGED <<envelope, raised>>

\* the block's condition is false: fall through without invoking the handler
Skip(stage) ==
    /\ pc' = NextStage(stage)
    /\ UNCHANGED <<ran, declined, envelope, raised, columns>>

\* an exception leaves route
Raise(stage, exc) ==
    /\ pc' = "raised"
    /\ raised' = exc
    /\ ran' = Append(ran, stage)
    /\ columns' = ColumnsAfter(stage, columns)
    /\ UNCHANGED <<declined, envelope>>

Route ==
    /\ pc = "idle"
    /\ \E q \in Queries : query' = q
    /\ pc' = "temporal"
    /\ ran' = <<>>
    /\ declined' = {}
    /\ llm_calls' = <<>>
    /\ envelope' = NoEnvelope
    /\ raised' = None
    /\ UNCHANGED <<df, key_columns, columns, anomalyVars, confVars, previous, auxVars>>

TemporalStage ==
    /\ pc = "temporal"
    /\ IF _is_temporal_query(query)
       THEN LET result == handle_temporal_analysis(query, df, key_columns)
            IN  IF result # None
                THEN Return("temporal",
                            [answer |-> "temporal_report", method |-> "temporal_analysis",
                             confidence |-> 95, graph_data |-> NoGraph, count |-> Len(df)])
                ELSE Decline("temporal")
       ELSE Skip("temporal")
    /\ UNCHANGED <<df, key_columns, query, llm_calls, anomalyVars, confVars, previous, auxVars>>

AnomalyStage ==
    /\ pc = "anomaly"
    /\ IF "anomaly" \in detect_query_intent(query)
       THEN LET f == extract_filters_from_query(df, key_columns, query)
                found == detect_anomalies(GroupByDate(f.df_filtered), key_columns)
                graph_data == IF Len(f.df_filtered) > 0
                              THEN generate_xy_graph_data(f.df_filtered, key_columns)
                              ELSE NoGraph
                \* build_anomaly_report: the findings, or the detector's reason
                report == IF found.detected THEN "anomaly_report" ELSE found.reason
            IN  Return("anomaly",
                       [answer |-> report, method |-> "anomaly_detection",
                        confidence |-> 90, graph_data |-> graph_data,
                        count |-> Len(f.df_filtered)])
       ELSE Skip("anomaly")
    /\ UNCHANGED <<df, key_columns, query, llm_calls, anomalyVars, confVars, previous, auxVars>>

ComparisonStage ==
    /\ pc = "comparison"
    /\ IF AnyIn(RouterComparisonKeywords, query)
       THEN LET f == extract_filters_from_query(df, key_columns, query)
                result == handle_comparison_query(query, df, key_columns)
                found_equipments == extract_equipment_codes(query)
                graph_data ==
                    IF should_generate_graph(query) /\ Len(found_equipments) >= 2
                    THEN generate_comparison_graph_data(df, key_columns,
                                                        found_equipments, f.filters)
                    ELSE NoGraph
            IN  CASE result.kind = "raise" -> Raise("comparison", result.exc)
                  [] result.kind = "none" -> Decline("comparison")
                  [] result.kind = "report" ->
                       Return("comparison",
                              [answer |-> "comparison_report",
                               method |-> IF graph_data.type # None
                                          THEN "comparison_with_trend" ELSE "comparison",
                               confidence |-> 90, graph_data |-> graph_data,
                               count |-> Len(df)])
       ELSE Skip("comparison")
    /\ UNCHANGED <<df, key_columns, query, llm_calls, anomalyVars, confVars, previous, auxVars>>

IdentifierStage ==
    /\ pc = "identifier"
    /\ IF is_identifier_query(query)
       THEN LET found == search_by_identifier(query, df, key_columns)
                f == extract_filters_from_query(df, key_columns, query)
                graph_data == IF should_generate_graph(query) /\ Len(f.df_filtered) > 0
                              THEN generate_xy_graph_data(f.df_filtered, key_columns)
                              ELSE NoGraph
            IN  IF found.data # None
                THEN /\ \E outcome \in LLMOutcomes :
                            llm_calls' = Append(llm_calls, outcome)
                     /\ Return("identifier",
                               [answer |-> found.explanation, method |-> "identifier_search",
                                confidence |-> found.confidence,
                                graph_data |-> graph_data])
                ELSE Decline("identifier") /\ UNCHANGED llm_calls
       ELSE Skip("identifier") /\ UNCHANGED llm_calls
    /\ UNCHANGED <<df, key_columns, query, anomalyVars, confVars, previous, auxVars>>

\* _handle_llm_analysis: call_llm is not guarded, its exception leaves route
LlmAnalysisStage ==
    /\ pc = "llm_analysis"
    /\ IF _is_data_query(query)
       THEN \E outcome \in LLMOutcomes :
              LET f == extract_filters_from_query(df, key_columns, query)
                  graph_data == IF should_generate_graph(query) /\ Len(f.df_filtered) > 0
                                THEN generate_xy_graph_data(f.df_filtered, key_columns)
                                ELSE NoGraph
              IN  /\ llm_calls' = Append(llm_calls, outcome)
                  /\ IF outcome = "ok"
                     THEN Return("llm_analysis",
                                 [answer |-> "llm_answer", method |-> "llm_analysis",
                                  confidence |-> calculate_confidence(
                                      Frame(f.df_filtered), f.filters, query,
                                      "llm_analysis"),
                                  graph_data |-> graph_data,
                                  count |-> Len(f.df_filtered)])
                     ELSE Raise("llm_analysis", "LLM Error")
       ELSE Skip("llm_analysis") /\ UNCHANGED llm_calls
    /\ UNCHANGED <<df, key_columns, query, anomalyVars, confVars, previous, auxVars>>

\* answer_general_question catches the backend error and returns an apology
GeneralLlmStage ==
    /\ pc = "general_llm"
    /\ \E outcome \in LLMOutcomes :
         /\ llm_calls' = Append(llm_calls, outcome)
         /\ Return("general_llm",
                   [answer |-> IF outcome = "ok" THEN "llm_answer" ELSE "apology",
                    method |-> "general_llm", confidence |-> 100,
                    graph_data |-> NoGraph])
    /\ UNCHANGED <<df, key_columns, query, anomalyVars, confVars, previous, auxVars>>

\* the caller takes the envelope or the exception; the router serves again
Respond ==
    /\ pc \in {"done", "raised"}
    /\ pc' = "idle"
    /\ query' = None
    /\ ran' = <<>>
    /\ declined' = {}
    /\ llm_calls' = <<>>
    /\ envelope' = NoEnvelope
    /\ raised' = None
    /\ previous' = None
    /\ UNCHANGED <<df, key_columns, columns, anomalyVars, confVars, auxVars>>

\* the stages the cache is meant to spare
ExpensiveMethods == {"comparison", "comparison_with_trend", "llm_analysis"}

\* the caller sends the query just answered once more: route(query) starts
\* over; neither route nor a handler it calls looks anything up in a cache
RouteAgain ==
    /\ pc = "done"
    /\ previous = None
    /\ envelope.method \in ExpensiveMethods
    /\ previous' = envelope.method
    /\ pc' = "temporal"
    /\ ran' = <<>>
    /\ declined' = {}
    /\ llm_calls' = <<>>
    /\ envelope' = NoEnvelope
    /\ raised' = None
    /\ UNCHANGED <<df, key_columns, query, columns, anomalyVars, confVars, auxVars>>

\* the variables of the other specifications, at rest
ComparisonOff == cmp_in = None /\ cmp_out = None /\ bd_in = None /\ breakdown = None

FilterOff == flt_in = None /\ flt_out = None

DateRangeOff == tokens = <<>> /\ date_info = None /\ extracted = None

CacheOff == cache = <<>> /\ max_size = 0 /\ now = 0 /\ ticks = 0 /\ cache_out = None

NoDetection == [detected |-> FALSE, reason |-> None, keys |-> {}, anomalies |-> <<>>]

NoDailyInput == [nulls |-> 0, days |-> <<>>, date |-> None]

NoConfInput == [frame |-> [rows |-> 0, cols |-> 0, nulls |-> 0],
                filters |-> NoFilters, query |-> {}, method |-> None]

InitRouter ==
    /\ df \in Tables
    /\ key_columns \in KeyColumnMaps
    /\ query = None
    /\ pc = "idle"
    /\ ran = <<>>
    /\ declined = {}
    /\ llm_calls = <<>>
    /\ envelope = NoEnvelope
    /\ raised = None
    /\ daily_in = NoDailyInput
    /\ anomalies = NoDetection
    /\ conf_in = NoConfInput
    /\ conf_out = -1
    /\ columns = Columns
    /\ previous = None
    /\ ComparisonOff /\ FilterOff /\ DateRangeOff /\ CacheOff

NextRouter ==
    \/ Route
    \/ TemporalStage
    \/ AnomalyStage
    \/ ComparisonStage
    \/ IdentifierStage
    \/ LlmAnalysisStage
    \/ GeneralLlmStage
    \/ RouteAgain
    \/ Respond

SpecRouter == InitRouter /\ [][NextRouter]_vars

(***************************************************************************)
(* The anomaly detector on its own: daily series of up to MaxDays days     *)
(* with counts in 1..MaxCount or SpikeCount.  The detector's verdicts do   *)
(* not depend on the order of the days, so the series are enumerated in    *)
(* nondecreasing order of count.                                           *)
(***************************************************************************)
CountValues == (1..MaxCount) \cup {SpikeCount}

RECURSIVE CountSeries(_)
CountSeries(n) ==
    IF n = 0 THEN {<<>>}
    ELSE LET shorter == CountSeries(n - 1)
             longest == {s \in shorter : Len(s) = n - 1}
         IN  shorter \cup
             {Append(e[1], e[2]) :
                 e \in {x \in longest \X CountValues :
                           x[1] = <<>> \/ x[1][n - 1] <= x[2]}}

DailySeries == CountSeries(MaxDays)

DailyInputs ==
    [nulls : 0..MaxNullRows, days : DailySeries, date : {"Timestamp", None}]

InitAnomaly ==
    /\ df = <<>>
    /\ key_columns = [date |-> None, identifier |-> None]
    /\ query = None
    /\ pc = "detect"
    /\ ran = <<>>
    /\ declined = {}
    /\ llm_calls = <<>>
    /\ envelope = NoEnvelope
    /\ raised = None
    /\ daily_in \in DailyInputs
    /\ anomalies = NoDetection
    /\ conf_in = NoConfInput
    /\ conf_out = -1
    /\ columns = Columns
    /\ previous = None
    /\ ComparisonOff /\ FilterOff /\ DateRangeOff /\ CacheOff

DetectAnomalies ==
    /\ pc = "detect"
    /\ anomalies' = detect_anomalies(daily_in,
                                     [date |-> daily_in.date, identifier |-> None])
    /\ pc' = "detected"
    /\ UNCHANGED <<df, key_columns, query, ran, declined, llm_calls, envelope, raised,
                   daily_in, confVars, columns, previous, auxVars>>

\* generate_xy_graph_data on the rows behind a daily series: one point per
\* calendar day, the days named by their index
xy_graph_of_days(tbl, kc) ==
    IF kc.date = None \/ Len(tbl.days) = 0 THEN NoGraph
    ELSE [type |-> "xy_line", datasets |-> <<>>,
          dates |-> [i \in 1..Len(tbl.days) |-> i], counts |-> tbl.days]

\* seeded fault: a severity distribution that leaves out the low tier
SeverityCountWithoutLow(found, severity) ==
    IF severity = "low" THEN 0
    ELSE Len(SelectSeq(found, LAMBDA a : a.severity = severity))

\* len([a for a in anomalies['anomalies'] if a['severity'] == severity])
SeverityCount(found, severity) ==
    Len(SelectSeq(found, LAMBDA a : a.severity = severity))

\* the markers the anomaly block of route adds to its chart
WithAnomalyMarkers(graph_data, result) ==
    IF graph_data.type # None /\ result.detected /\ result.anomalies # <<>>
    THEN LET anomaly_dates == [k \in 1..Len(result.anomalies) |-> result.anomalies[k].date]
         IN  [anomaly_dates |-> anomaly_dates,
              anomaly_info |->
                  [count |-> Len(anomaly_dates),
                   severity_distribution |->
                       [sev \in {"critical", "high", "medium", "low"} |->
                           SeverityCount(result.anomalies, sev)]]] @@ graph_data
    ELSE graph_data

\* the anomaly block of QueryRouter.route after the detector returned, on
\* the same filtered rows
AnomalyEnvelope ==
    /\ pc = "detected"
    /\ pc' = "answered"
    /\ LET kc == [date |-> daily_in.date, identifier |-> None]
           rows == daily_in.nulls + SumSeq(daily_in.days)
           graph_data == IF rows > 0
                         THEN WithAnomalyMarkers(xy_graph_of_days(daily_in, kc), anomalies)
                         ELSE NoGraph
       IN  envelope' = [answer |-> IF anomalies.detected THEN "anomaly_report"
                                   ELSE anomalies.reason,
                        method |-> "anomaly_detection", confidence |-> 90,
                        graph_data |-> graph_data, count |-> rows]
    /\ UNCHANGED <<df, key_columns, query, ran, declined, llm_calls, raised,
                   anomalyVars, confVars, columns, previous, auxVars>>

NextAnomaly == DetectAnomalies \/ AnomalyEnvelope

SpecAnomaly == InitAnomaly /\ [][NextAnomaly]_vars

(***************************************************************************)
(* The confidence scorer on its own                                        *)
(***************************************************************************)
ConfFrames ==
    UNION {[rows : {r}, cols : {Cardinality(Columns)},
            nulls : 0..(r * Cardinality(Columns))] : r \in 0..MaxConfRows}

ConfFilters ==
    {NoFilters,
     "months" :> {8},
     "day" :> 0,
     "day" :> 15,
     "identifier" :> "GB-651",
     ("identifier" :> "GB-651") @@ ("months" :> {8})}

ConfQueries == {{p} : p \in Phrases}

ConfMethods == {"identifier_search", "llm_analysis", "comparison"}

ConfInputs ==
    [frame : ConfFrames, filters : ConfFilters, query : ConfQueries,
     method : ConfMethods]

InitConfidence ==
    /\ df = <<>>
    /\ key_columns = [date |-> None, identifier |-> None]
    /\ query = None
    /\ pc = "score"
    /\ ran = <<>>
    /\ declined = {}
    /\ llm_calls = <<>>
    /\ envelope = NoEnvelope
    /\ raised = None
    /\ daily_in = NoDailyInput
    /\ anomalies = NoDetection
    /\ conf_in \in ConfInputs
    /\ conf_out = -1
    /\ columns = Columns
    /\ previous = None
    /\ ComparisonOff /\ FilterOff /\ DateRangeOff /\ CacheOff

ScoreConfidence ==
    /\ pc = "score"
    /\ conf_out' = calculate_confidence(conf_in.frame, conf_in.filters,
                                        conf_in.query, conf_in.method)
    /\ pc' = "scored"
    /\ UNCHANGED <<df, key_columns, query, ran, declined, llm_calls, envelope, raised,
                   anomalyVars, conf_in, columns, previous, auxVars>>

\* the end of search_by_identifier on the rows conf_in.frame, found for a
\* query whose time filters are conf_in.filters
ScoreIdentifierSearch ==
    /\ pc = "score"
    /\ conf_out' = identifier_search_confidence(conf_in.frame, conf_in.filters,
                                                conf_in.query)
    /\ pc' = "searched"
    /\ UNCHANGED <<df, key_columns, query, ran, declined, llm_calls, envelope, raised,
                   anomalyVars, conf_in, columns, previous, auxVars>>

NextConfidence == ScoreConfidence \/ ScoreIdentifierSearch

SpecConfidence == InitConfidence /\ [][NextConfidence]_vars

(***************************************************************************)
(* Properties of the router                                                *)
(***************************************************************************)
StageIndex(stage) == CHOOSE i \in 1..Len(StageOrder) : StageOrder[i] = stage

\* the activation predicate of each priority block of route
Active(stage, q) ==
    CASE stage = "temporal" -> _is_temporal_query(q)
      [] stage = "anomaly" -> "anomaly" \in detect_query_intent(q)
      [] stage = "comparison" -> AnyIn(RouterComparisonKeywords, q)
      [] stage = "identifier" -> is_identifier_query(q)
      [] stage = "llm_analysis" -> _is_data_query(q)
      [] stage = "general_llm" -> TRUE

StageOfMethod(method) ==
    CASE method = "temporal_analysis" -> "temporal"
      [] method = "anomaly_detection" -> "anomaly"
      [] method \in {"comparison", "comparison_with_trend"} -> "comparison"
      [] method = "identifier_search" -> "identifier"
      [] method = "llm_analysis" -> "llm_analysis"
      [] method = "general_llm" -> "general_llm"

LastCallFailed == llm_calls # <<>> /\ llm_calls[Len(llm_calls)] # "ok"

\* C1: for every query and every backend outcome route ends by returning an
\* envelope with answer, method and confidence, and no exception escapes it.
C1_RouteAlwaysReturnsEnvelope ==
    /\ pc # "raised"
    /\ pc = "done" => {"answer", "method", "confidence"} \subseteq DOMAIN envelope

C3_FailedCallYieldsZeroConfidence ==
    (/\ LastCallFailed
     /\ ran # <<>>
     /\ ran[Len(ran)] \in {"llm_analysis", "general_llm"}) =>
        /\ pc = "done"
        /\ envelope.confidence = 0
        /\ "count" \in DOMAIN envelope => envelope.count = 0

\* C4: the identifier stage answers only queries with exactly one equipment
\* code; a query with two or more codes never gets method identifier_search.
C4_IdentifierSearchOnlyForOneCode ==
    (pc = "done" /\ envelope.method = "identifier_search") =>
        Len(extract_equipment_codes(query)) = 1

\* the rows matched by the query: those of the compared entities for the
\* comparison stage, those left by the query's filters for the others
MatchedRows(method, q, t, kc) ==
    IF StageOfMethod(method) = "comparison"
    THEN LET results == handle_comparison_query(q, t, kc).results
         IN  SumSeq([i \in 1..Len(results) |-> results[i].count])
    ELSE Len(extract_filters_from_query(t, kc, q).df_filtered)

\* C5: an envelope's count is the number of rows matched by the query, for
\* every stage that sets it, the temporal and comparison stages included.
C5_CountIsMatchedRows ==
    (pc = "done" /\ "count" \in DOMAIN envelope) =>
        envelope.count = MatchedRows(envelope.method, query, df, key_columns)

(***************************************************************************)
(* Properties of the anomaly detector                                      *)
(***************************************************************************)
Detected == pc = "detected" /\ daily_in.date # None

\* C6: the detector answers insufficient_data exactly when the dated rows
\* fall on fewer than 7 distinct calendar days.
C6_InsufficientIffFewerThanSevenDays ==
    Detected =>
        (anomalies.reason = "insufficient_data" <=> Len(daily_in.days) < 7)

\* the days whose count exceeds at least one of the three thresholds
ExceedingDays(days) ==
    LET st == DailyStats(days)
    IN  {i \in 1..Len(days) :
            \/ ExceedsZscoreThreshold(days[i], st)
            \/ ExceedsIqrUpper(days[i], st)
            \/ ExceedsSpikeThreshold(days[i], st)}

ListedDays == {anomalies.anomalies[k].date : k \in 1..Len(anomalies.anomalies)}

\* C7: given sufficient data, a day is in the anomaly list if and only if its
\* count strictly exceeds mean + 2.5*std, Q3 + 1.5*IQR or 3*median, and the
\* detector answers no_anomalies, with the statistics attached, exactly when
\* no day exceeds any of the three.
C7_ListIsUnionOfThreeRules ==
    (Detected /\ ~InsufficientData(daily_in)) =>
        /\ ListedDays = ExceedingDays(daily_in.days)
        /\ anomalies.detected <=> ExceedingDays(daily_in.days) # {}
        /\ anomalies.reason = "no_anomalies" <=> ExceedingDays(daily_in.days) = {}
        /\ anomalies.reason = "no_anomalies" =>
               ~anomalies.detected /\ "statistics" \in anomalies.keys

\* a day is listed that only the spike rule flags
C7_Witness ==
    /\ Detected
    /\ anomalies.detected
    /\ \E k \in 1..Len(anomalies.anomalies) :
         LET st == DailyStats(daily_in.days)
             c == anomalies.anomalies[k].count
         IN  /\ ExceedsSpikeThreshold(c, st)
             /\ ~ExceedsZscoreThreshold(c, st)
             /\ ~ExceedsIqrUpper(c, st)

\* z >= 4 for a day's count, where z = (count - mean) / std and std > 0
ZscoreAtLeast4(count, st) ==
    LET d == st.n * count - st.sum
    IN  /\ st.n >= 2
        /\ ScaledVar(st) > 0
        /\ d > 0
        /\ d * d * (st.n - 1) >= 16 * st.n * ScaledVar(st)

\* z = 4 exactly
ZscoreIs4(count, st) ==
    LET d == st.n * count - st.sum
    IN  /\ st.n >= 2
        /\ d > 0
        /\ ScaledVar(st) > 0
        /\ d * d * (st.n - 1) = 16 * st.n * ScaledVar(st)

\* C8: every anomaly record's severity follows its z-score (0 when std is
\* not positive): critical above 3, high above 2.5, medium above 2, low
\* otherwise; a day at mean + 4*std or beyond is listed as critical.
C8_SeverityFollowsZscore ==
    Detected =>
        LET st == DailyStats(daily_in.days)
        IN  /\ \A k \in 1..Len(anomalies.anomalies) :
                 LET r == anomalies.anomalies[k]
                 IN  r.severity =
                        IF ZscoreAbove(r.count, st, 3, 1) THEN "critical"
                        ELSE IF ZscoreAbove(r.count, st, 5, 2) THEN "high"
                        ELSE IF ZscoreAbove(r.count, st, 2, 1) THEN "medium"
                        ELSE "low"
            /\ ~InsufficientData(daily_in) =>
                 \A i \in 1..Len(daily_in.days) :
                    ZscoreAtLeast4(daily_in.days[i], st) =>
                        \E k \in 1..Len(anomalies.anomalies) :
                            /\ anomalies.anomalies[k].date = i
                            /\ anomalies.anomalies[k].severity = "critical"

\* a day exactly at mean + 4*std is listed as critical
C8_Witness ==
    /\ Detected
    /\ \E k \in 1..Len(anomalies.anomalies) :
         /\ ZscoreIs4(anomalies.anomalies[k].count, DailyStats(daily_in.days))
         /\ anomalies.anomalies[k].severity = "critical"

(***************************************************************************)
(* Properties of the confidence scorer                                     *)
(***************************************************************************)
\* C9: the score is within 0..100, and is 0 whenever the table has no rows.
C9_ScoreWithinRangeAndZeroWhenEmpty ==
    pc = "scored" =>
        /\ conf_out >= 0 /\ conf_out <= 100
        /\ conf_in.frame.rows = 0 => conf_out = 0

\* no rows, with filters, an unambiguous query and the identifier bonus
C9_Witness ==
    /\ pc = "scored"
    /\ conf_in.frame.rows = 0
    /\ conf_in.filters # NoFilters
    /\ conf_in.method = "identifier_search"
    /\ conf_out = 0

\* C10: at least 10 rows, a non-empty filter set, no ambiguity marker, method
\* identifier_search and at most 30% null cells give exactly 100.
C10_FullScore ==
    (/\ pc = "scored"
     /\ conf_in.frame.rows >= 10
     /\ DOMAIN conf_in.filters # {}
     /\ ~AnyIn(AmbiguousTerms, conf_in.query)
     /\ conf_in.method = "identifier_search"
     /\ 10 * conf_in.frame.nulls <= 3 * conf_in.frame.rows * conf_in.frame.cols)
        => conf_out = 100

\* the case with a date filter, where both bonuses apply to a full score
C10_Witness ==
    /\ pc = "scored"
    /\ conf_in.frame.rows >= 10
    /\ Truthy(conf_in.filters, "months")
    /\ ~AnyIn(AmbiguousTerms, conf_in.query)
    /\ conf_in.method = "identifier_search"
    /\ 10 * conf_in.frame.nulls = 3 * conf_in.frame.rows * conf_in.frame.cols
    /\ conf_out = 100

(***************************************************************************)
(* Shared data                                                             *)
(***************************************************************************)

\* C18: no step of query processing changes the event table (its rows and
\* its columns) or the key column map; every stage works on a derived copy.
C18_SharedDataNeverMutated ==
    [][df' = df /\ key_columns' = key_columns /\ columns' = columns]_vars

\* an answered anomaly query, whose handler assigns date_only, hour and
\* day_of_week on its own frame, with the shared columns as loaded
C18_Witness ==
    /\ pc = "done"
    /\ envelope.method = "anomaly_detection"
    /\ Len(df) > 0
    /\ columns = Columns

(***************************************************************************)
(* The comparison resolver on its own: what STEP 1 detected in a query is  *)
(* drawn from bounded sets, and the action applies the keyword gate and    *)
(* STEP 2 of handle_comparison_query                                       *)
(***************************************************************************)
EquipmentNames == <<"GB-651", "EA-119", "FT-101", "PU-202">>

AreaNames == <<"Utility", "Boiler", "Turbine", "Reactor">>

CategoryNames == <<"Alarm", "Trip", "Warning", "Fault">>

\* the first n entries of a list of names
Prefix(names, n) == SubSeq(names, 1, n)

TopMatches == {NoTop} \cup {[matched |-> TRUE, n |-> k] : k \in 0..MaxTop}

\* only the identifier column matters to value_counts
IdentifierTables == UNION {[1..n -> [id : IdValues, date : {NaT}]] : n \in 0..MaxRows}

ComparisonInputs ==
    [keyword : BOOLEAN,
     top : TopMatches,
     identifier_col : {"Equipment", None},
     table : IdentifierTables,
     found_equipments : {Prefix(EquipmentNames, n) : n \in 0..MaxEntities},
     found_areas : {Prefix(AreaNames, n) : n \in 0..MaxEntities},
     found_categories : {Prefix(CategoryNames, n) : n \in 0..MaxEntities},
     found_months : {[i \in 1..n |-> i + 7] : n \in 0..MaxEntities}]

NotResolved == [ran |-> FALSE, type |-> None, entities |-> <<>>, equipment |-> None]

InitComparison ==
    /\ df = <<>>
    /\ key_columns = [date |-> None, identifier |-> None]
    /\ query = None
    /\ pc = "resolve"
    /\ ran = <<>>
    /\ declined = {}
    /\ llm_calls = <<>>
    /\ envelope = NoEnvelope
    /\ raised = None
    /\ daily_in = NoDailyInput
    /\ anomalies = NoDetection
    /\ conf_in = NoConfInput
    /\ conf_out = -1
    /\ columns = Columns
    /\ previous = None
    /\ cmp_in \in ComparisonInputs
    /\ cmp_out = NotResolved
    /\ bd_in = None
    /\ breakdown = None
    /\ FilterOff /\ DateRangeOff /\ CacheOff

\* handle_comparison_query up to the end of STEP 2
ResolveComparison ==
    /\ pc = "resolve"
    /\ pc' = "resolved"
    /\ LET chosen == IF ~cmp_in.keyword THEN NoComparison
                     ELSE ComparisonType(cmp_in.table, cmp_in.top,
                                         cmp_in.identifier_col,
                                         cmp_in.found_equipments, cmp_in.found_areas,
                                         cmp_in.found_categories, cmp_in.found_months)
       IN  cmp_out' = [ran |-> TRUE, type |-> chosen.type, entities |-> chosen.entities,
                       equipment |-> chosen.equipment]
    /\ UNCHANGED <<df, key_columns, query, ran, declined, llm_calls, envelope,
                   raised, anomalyVars, confVars, columns, previous, cmp_in,
                   bd_in, breakdown, filterVars, dateRangeVars, cacheVars>>

NextComparison == ResolveComparison

SpecComparison == InitComparison /\ [][NextComparison]_vars

(***************************************************************************)
(* Properties of the comparison resolver                                   *)
(***************************************************************************)
CodeCount(t, code) == Len(SelectSeq(t, LAMBDA r : r.id = code))

\* entities are n of the most frequent codes of the table (all of them when
\* the table has fewer than n codes)
MostFrequentCodes(entities, t, n) ==
    LET codes == {t[i].id : i \in 1..Len(t)}
        listed == {entities[i] : i \in 1..Len(entities)}
    IN  /\ Len(entities) = Min2(n, Cardinality(codes))
        /\ Cardinality(listed) = Len(entities)
        /\ listed \subseteq codes
        /\ \A a \in listed : \A b \in codes \ listed : CodeCount(t, a) >= CodeCount(t, b)

\* the mode the listed rules give when the 'top N' rule is the one given
ModeFollowsRules(top_rule) ==
    LET i == cmp_in
    IN  IF ~i.keyword THEN cmp_out.type = None
        ELSE IF top_rule
        THEN cmp_out.type = "equipment"
             /\ MostFrequentCodes(cmp_out.entities, i.table, i.top.n)
        ELSE IF Len(i.found_equipments) >= 2
        THEN cmp_out.type = "equipment" /\ cmp_out.entities = i.found_equipments
        ELSE IF Len(i.found_areas) >= 2
        THEN cmp_out.type = "area" /\ cmp_out.entities = i.found_areas
        ELSE IF Len(i.found_categories) >= 2
        THEN cmp_out.type = "category" /\ cmp_out.entities = i.found_categories
        ELSE IF Len(i.found_months) >= 2
        THEN /\ cmp_out.entities = i.found_months
             /\ IF Len(i.found_equipments) = 1
                THEN cmp_out.type = "equipment_month"
                     /\ cmp_out.equipment = i.found_equipments[1]
                ELSE cmp_out.type = "month"
        ELSE cmp_out.type = None

\* C11: without a comparison keyword the resolver returns null; otherwise the
\* first matching rule decides, in the order: 'top N' with N >= 1 and a bound
\* identifier role (N of the most frequent codes), two or more equipment
\* codes, two or more areas, two or more categories, two or more months
\* (single equipment across months when exactly one code was found); null
\* when no rule matches.
C11_ModeByFirstMatchingRule ==
    cmp_out.ran =>
        ModeFollowsRules(cmp_in.top.matched /\ cmp_in.top.n >= 1
                         /\ cmp_in.identifier_col # None)

\* C11 as stated: the 'top N' rule fires for every N once the identifier
\* role is bound
C11_AsStated ==
    cmp_out.ran =>
        ModeFollowsRules(cmp_in.top.matched /\ cmp_in.identifier_col # None)

\* 'top 2' wins over two named equipment codes and two months, on a table
\* that holds one code only
C11_Witness ==
    /\ cmp_out.ran
    /\ cmp_in.keyword
    /\ cmp_in.top = [matched |-> TRUE, n |-> 2]
    /\ cmp_in.identifier_col # None
    /\ Len(cmp_in.found_equipments) = 2
    /\ Len(cmp_in.found_months) = 2
    /\ cmp_in.table = << [id |-> "EA-119", date |-> NaT], [id |-> "EA-119", date |-> NaT] >>
    /\ cmp_out.type = "equipment"
    /\ cmp_out.entities = <<"EA-119">>

(***************************************************************************)
(* Properties of the comparison report                                     *)
(***************************************************************************)
ComparisonAnswered ==
    pc = "done" /\ envelope.method \in {"comparison", "comparison_with_trend"}

\* the report behind an envelope of the comparison stage
ComparisonReport == handle_comparison_query(query, df, key_columns)

HighestRows(summary) == {i \in 1..Len(summary) : summary[i].status = "highest"}

\* C12: in the summary table of a comparison report exactly one entity is
\* tagged highest, and its count is the maximum count.
C12_ExactlyOneHighest ==
    ComparisonAnswered =>
        LET summary == ComparisonReport.summary
        IN  /\ Cardinality(HighestRows(summary)) = 1
            /\ \A i \in HighestRows(summary) :
                   \A j \in 1..Len(summary) : summary[j].count <= summary[i].count

\* C13: with an unbound role in the key column map no query ends in a
\* KeyError; the dimension of that role is skipped.
C13_UnboundRoleIsSkipped ==
    (key_columns.date = None \/ key_columns.identifier = None) =>
        ~(pc = "raised" /\ raised = "KeyError")

(***************************************************************************)
(* Properties of the router and the cache                                  *)
(***************************************************************************)
ExpensiveStages == {"comparison", "llm_analysis"}

\* C17: a query answered by the comparison stage or the generic-analysis
\* stage and sent again at once is answered without running that stage a
\* second time.
C17_RepeatedQuerySparesTheStage ==
    previous # None => \A i \in 1..Len(ran) : ran[i] \notin ExpensiveStages

(***************************************************************************)
(* utils/cache_manager.py: CacheManager                                    *)
(***************************************************************************)
\* config.CACHE_EXPIRY_SECONDS, the default of expiry_seconds
CACHE_EXPIRY_SECONDS == 300

SecondsPerDay == 86400

\* _get_cache_key: one md5 digest per (query, filters) pair
CacheKeys == 1..MaxKeys

CacheData == {"result_a", "result_b"}

\* the clock advances by one of these spans between two operations
TickSteps == {150, SecondsPerDay}

\* seeded fault: eviction only once the limit is exceeded
OverCapacity(size, limit) == size > limit

\* len(self.cache) >= self.max_size
AtCapacity(size, limit) == size >= limit

\* timedelta.seconds: the seconds left over after the whole days
TimedeltaSeconds(delta) == delta % SecondsPerDay

HasKey(c, k) == \E i \in 1..Len(c) : c[i].key = k

IndexOfKey(c, k) == CHOOSE i \in 1..Len(c) : c[i].key = k

RemoveAt(c, i) == SubSeq(c, 1, i - 1) \o SubSeq(c, i + 1, Len(c))

\* min(self.cache.items(), key=timestamp): the first entry, in dict order,
\* among those with the least timestamp
OldestIndex(c) ==
    CHOOSE i \in 1..Len(c) :
        /\ \A j \in 1..Len(c) : c[i].timestamp <= c[j].timestamp
        /\ \A j \in 1..(i - 1) : c[j].timestamp > c[i].timestamp

\* self.cache[cache_key] = {...}: an existing key keeps its place in the dict
Store(c, k, data, t) ==
    LET entry == [key |-> k, data |-> data, timestamp |-> t]
    IN  IF HasKey(c, k) THEN [c EXCEPT ![IndexOfKey(c, k)] = entry]
        ELSE Append(c, entry)

NoCacheResult == [op |-> "none", key |-> 0, found |-> FALSE, data |-> None, age |-> 0]

\* CacheManager.get; age is datetime.now() - cached['timestamp'] in seconds
Get ==
    \E k \in CacheKeys :
        /\ IF HasKey(cache, k)
           THEN LET cached == cache[IndexOfKey(cache, k)]
                    age == now - cached.timestamp
                IN  IF TimedeltaSeconds(age) < CACHE_EXPIRY_SECONDS
                    THEN /\ cache_out' = [op |-> "get", key |-> k, found |-> TRUE,
                                          data |-> cached.data, age |-> age]
                         /\ cache' = cache
                    ELSE /\ cache_out' = [op |-> "get", key |-> k, found |-> TRUE,
                                          data |-> None, age |-> age]
                         /\ cache' = RemoveAt(cache, IndexOfKey(cache, k))
           ELSE /\ cache_out' = [op |-> "get", key |-> k, found |-> FALSE,
                                 data |-> None, age |-> 0]
                /\ cache' = cache
        /\ UNCHANGED <<max_size, now, ticks>>
        /\ UNCHANGED <<routerVars, anomalyVars, confVars, columns, previous,
                       comparisonVars, filterVars, dateRangeVars>>

\* CacheManager.set
Set ==
    \E k \in CacheKeys, data \in CacheData :
        /\ LET room == IF AtCapacity(Len(cache), max_size)
                       THEN RemoveAt(cache, OldestIndex(cache))
                       ELSE cache
           IN  cache' = Store(room, k, data, now)
        /\ cache_out' = [op |-> "set", key |-> k, found |-> FALSE,
                         data |-> None, age |-> 0]
        /\ UNCHANGED <<max_size, now, ticks>>
        /\ UNCHANGED <<routerVars, anomalyVars, confVars, columns, previous,
                       comparisonVars, filterVars, dateRangeVars>>

\* CacheManager.clear
Clear ==
    /\ cache' = <<>>
    /\ cache_out' = [op |-> "clear", key |-> 0, found |-> FALSE,
                     data |-> None, age |-> 0]
    /\ UNCHANGED <<max_size, now, ticks>>
    /\ UNCHANGED <<routerVars, anomalyVars, confVars, columns, previous,
                   comparisonVars, filterVars, dateRangeVars>>

\* time passes between two operations
Tick ==
    /\ ticks < MaxTicks
    /\ \E d \in TickSteps : now' = now + d
    /\ ticks' = ticks + 1
    /\ UNCHANGED <<cache, max_size, cache_out>>
    /\ UNCHANGED <<routerVars, anomalyVars, confVars, columns, previous,
                   comparisonVars, filterVars, dateRangeVars>>

InitCache ==
    /\ df = <<>>
    /\ key_columns = [date |-> None, identifier |-> None]
    /\ query = None
    /\ pc = "cache"
    /\ ran = <<>>
    /\ declined = {}
    /\ llm_calls = <<>>
    /\ envelope = NoEnvelope
    /\ raised = None
    /\ daily_in = NoDailyInput
    /\ anomalies = NoDetection
    /\ conf_in = NoConfInput
    /\ conf_out = -1
    /\ columns = Columns
    /\ previous = None
    /\ ComparisonOff /\ FilterOff /\ DateRangeOff
    /\ cache = <<>>
    /\ max_size \in 1..MaxCacheSize
    /\ now = 0
    /\ ticks = 0
    /\ cache_out = NoCacheResult

NextCache == Get \/ Set \/ Clear \/ Tick

SpecCache == InitCache /\ [][NextCache]_vars

(***************************************************************************)
(* Properties of the cache                                                 *)
(***************************************************************************)
CachedKeys(c) == {c[i].key : i \in 1..Len(c)}

Timestamps(c) == {c[i].timestamp : i \in 1..Len(c)}

\* a set that dropped the entry of another key than the one it stored
SetMadeRoom ==
    /\ cache_out'.op = "set"
    /\ CachedKeys(cache) \ CachedKeys(cache') # {}

\* C15: the cache never holds more than max_size entries, and the entry a set
\* removes to make room is one with the oldest timestamp.
C15_BoundedWithOldestEviction ==
    [][/\ Len(cache') <= max_size
       /\ SetMadeRoom =>
              \A k \in CachedKeys(cache) \ CachedKeys(cache') :
                  \A t \in Timestamps(cache) :
                      cache[IndexOfKey(cache, k)].timestamp <= t]_vars

\* a full cache of two entries of different age, after the set of a third
\* key dropped the older one
C15_Witness ==
    /\ max_size = 2
    /\ Len(cache) = 2
    /\ cache_out.op = "set"
    /\ cache_out.key = 3
    /\ CachedKeys(cache) = {2, 3}
    /\ cache[1].timestamp = 150
    /\ cache[2].timestamp = 300

\* C16: get returns the stored result exactly when the entry's age is below
\* the TTL, whatever the elapsed time, and null otherwise.
C16_ExpiresAfterTtl ==
    (cache_out.op = "get" /\ cache_out.found) =>
        (cache_out.data # None <=> cache_out.age < CACHE_EXPIRY_SECONDS)

(***************************************************************************)
(* Properties of the comparison chart                                      *)
(***************************************************************************)
ChartReturned == pc = "done" /\ envelope.graph_data.type = "comparison"

\* the rows of one compared equipment that pass the active month filter
EventsOf(code) ==
    LET months == parse_month_from_query(query)
    IN  SelectSeq(df, LAMBDA r : /\ r.id = code
                                 /\ r.date # NaT
                                 /\ (months = {} \/ r.date.month \in months))

\* the sorted union of the dates on which a compared equipment has events
CommonAxis ==
    LET codes == extract_equipment_codes(query)
    IN  SortedDates({d \in DateValues :
                        \E i \in 1..Len(codes) :
                            \E k \in 1..Len(EventsOf(codes[i])) :
                                EventsOf(codes[i])[k].date = d})

TokenTexts == UNION {[1..n -> DateTokens] : n \in 0..MaxTokens}

InitDateRange ==
    /\ df = <<>>
    /\ key_columns = [date |-> None, identifier |-> None]
    /\ query = None
    /\ pc = "parse"
    /\ ran = <<>>
    /\ declined = {}
    /\ llm_calls = <<>>
    /\ envelope = NoEnvelope
    /\ raised = None
    /\ daily_in = NoDailyInput
    /\ anomalies = NoDetection
    /\ conf_in = NoConfInput
    /\ conf_out = -1
    /\ columns = Columns
    /\ previous = None
    /\ ComparisonOff /\ FilterOff /\ CacheOff
    /\ tokens \in TokenTexts
    /\ date_info = NoDateInfo
    /\ extracted = None

ParseDateRange ==
    /\ pc = "parse"
    /\ pc' = "parsed"
    /\ date_info' = parse_date_range_from_query(tokens)
    /\ UNCHANGED <<df, key_columns, query, ran, declined, llm_calls, envelope, raised,
                   anomalyVars, confVars, columns, previous, comparisonVars,
                   filterVars, cacheVars, tokens, extracted>>

NextDateRange == ParseDateRange

SpecDateRange == InitDateRange /\ [][NextDateRange]_vars

(***************************************************************************)
(* Properties of the date-range extractor                                  *)
(***************************************************************************)
\* the text is exactly 'D - D MONTH'
IsDayDashDayMonth(toks) ==
    /\ Len(toks) = 4
    /\ toks[1] \in DayTokens
    /\ toks[2] = Separator
    /\ toks[3] \in DayTokens
    /\ toks[4] \in MonthTokens

\* the text is exactly 'D MONTH - D MONTH'
IsCrossMonth(toks) == Len(toks) = 5 /\ CrossMonthAt(toks, 1)

\* the text is exactly 'tanggal D'
IsTanggalDay(toks) == Len(toks) = 2 /\ SingleDayAt(toks, 1)

\* C20: 'D-D MONTH' yields same_month with both days, 'D MONTH - D MONTH'
\* yields cross_month with both days and both months, and 'tanggal D' yields
\* single_day with that day.
C20_ShapesYieldTheirTypes ==
    pc = "parsed" =>
        /\ IsDayDashDayMonth(tokens) =>
               /\ date_info.type = "same_month"
               /\ date_info.start_day = DayValue(tokens[1])
               /\ date_info.end_day = DayValue(tokens[3])
        /\ IsCrossMonth(tokens) =>
               /\ date_info.type = "cross_month"
               /\ date_info.start_day = DayValue(tokens[1])
               /\ date_info.start_month = MonthNumber(tokens[2])
               /\ date_info.end_day = DayValue(tokens[4])
               /\ date_info.end_month = MonthNumber(tokens[5])
        /\ IsTanggalDay(tokens) =>
               /\ date_info.type = "single_day"
               /\ date_info.day = DayValue(tokens[2])

(***************************************************************************)
(* The filter resolver on its own: tables whose rows carry a year and a    *)
(* category, queries given by what the helpers find in them, the resolver  *)
(* applied to the table and then again to its own result                   *)
(***************************************************************************)
Years == {2023, 2024}

CategoryValues == {"Alarm", "Trip"}

\* the dates of the rows: none, the same day of two years, and a day of
\* another month
DatedValues ==
    {[date |-> NaT, year |-> 0],
     [date |-> [month |-> 9, day |-> 10], year |-> 2023],
     [date |-> [month |-> 9, day |-> 10], year |-> 2024],
     [date |-> [month |-> 8, day |-> 20], year |-> 2024]}

FilterRows ==
    {[id |-> i, date |-> d.date, year |-> d.year, category |-> c] :
        i \in IdValues, d \in DatedValues, c \in CategoryValues}

FilterTables == UNION {[1..n -> FilterRows] : n \in 0..MaxFilterRows}

\* every role bound, or one of them unbound
FilterKeyColumns ==
    {kc \in [date : {"Timestamp", None}, identifier : {"Equipment", None},
             category : {"Category", None}] :
        Cardinality({role \in DOMAIN kc : kc[role] = None}) <= 1}

\* the date part of a query: nothing, 'august', '10 august - 17 sep',
\* '10 sep - 17 sep', 'tanggal 10 - 17', 'tanggal 10', and a range that ends
\* on a day September does not have, after a single day:
\* 'tanggal 10 august - 31 sep'
FilterTexts ==
    {<<>>,
     <<"august">>,
     <<"10", "august", "-", "17", "sep">>,
     <<"10", "sep", "-", "17", "sep">>,
     <<"tanggal", "10", "-", "17">>,
     <<"tanggal", "10">>,
     <<"tanggal", "10", "august", "-", "31", "sep">>}

\* parse_month_from_query on a token text: the names longer than 3 characters
MonthsInText(toks) ==
    {MonthNumber(toks[i]) : i \in {j \in 1..Len(toks) : toks[j] = "august"}}

\* no equipment code, one code, or two codes; a comparison keyword comes
\* with one code or with two
FilterQueries ==
    {q \in [text : FilterTexts,
            found_identifiers : {<<>>, <<"GB-651">>, <<"GB-651", "EA-119">>},
            comparison : BOOLEAN,
            mentioned : {{}, CategoryValues}] :
        q.comparison => Len(q.found_identifiers) >= 1}

\* a query mentions category values only where the table has a category role
FilterInputs ==
    {in \in [table : FilterTables, key_columns : FilterKeyColumns, query : FilterQueries] :
        in.key_columns.category = None => in.query.mentioned = {}}

\* FilterService(t, kc).extract_filters_from_query(q)
ResolveFilters(t, kc, q) ==
    ExtractFilters(t, kc.date, kc.identifier, kc.category, MonthsInText(q.text),
                   parse_date_range_from_query(q.text), q.found_identifiers,
                   q.comparison, q.mentioned)

NoFilterResult ==
    [df_filtered |-> <<>>, filters |-> NoFilters, filter_descriptions |-> <<>>,
     raised |-> FALSE]

NotFiltered == [first |-> NoFilterResult, second |-> NoFilterResult,
                time |-> <<>>, time_again |-> <<>>]

InitFilter ==
    /\ df = <<>>
    /\ key_columns = [date |-> None, identifier |-> None]
    /\ query = None
    /\ pc = "filter"
    /\ ran = <<>>
    /\ declined = {}
    /\ llm_calls = <<>>
    /\ envelope = NoEnvelope
    /\ raised = None
    /\ daily_in = NoDailyInput
    /\ anomalies = NoDetection
    /\ conf_in = NoConfInput
    /\ conf_out = -1
    /\ columns = Columns
    /\ previous = None
    /\ ComparisonOff /\ DateRangeOff /\ CacheOff
    /\ flt_in \in FilterInputs
    /\ flt_out = NotFiltered

\* the resolver and apply_time_filters on the table
FilterOnce ==
    /\ pc = "filter"
    /\ LET first == ResolveFilters(flt_in.table, flt_in.key_columns, flt_in.query)
       IN  /\ flt_out' = [flt_out EXCEPT
                            !.first = first,
                            !.time = apply_time_filters(flt_in.table,
                                                        flt_in.key_columns.date,
                                                        first.filters)]
           /\ pc' = IF first.raised THEN "filter_raised" ELSE "filtered"
    /\ UNCHANGED <<df, key_columns, query, ran, declined, llm_calls, envelope, raised,
                   anomalyVars, confVars, columns, previous, comparisonVars,
                   dateRangeVars, cacheVars, flt_in>>

\* the same query resolved on the filtered table, and the extracted time
\* filters applied to the result of apply_time_filters
FilterAgain ==
    /\ pc = "filtered"
    /\ flt_out' = [flt_out EXCEPT
                     !.second = ResolveFilters(flt_out.first.df_filtered,
                                               flt_in.key_columns, flt_in.query),
                     !.time_again = apply_time_filters(flt_out.time,
                                                       flt_in.key_columns.date,
                                                       flt_out.first.filters)]
    /\ pc' = "filtered_again"
    /\ UNCHANGED <<df, key_columns, query, ran, declined, llm_calls, envelope, raised,
                   anomalyVars, confVars, columns, previous, comparisonVars,
                   dateRangeVars, cacheVars, flt_in>>

NextFilter == FilterOnce \/ FilterAgain

SpecFilter == InitFilter /\ [][NextFilter]_vars

(***************************************************************************)
(* Properties of the filter resolver                                       *)
(***************************************************************************)
\* C14: filtering is idempotent: the resolver applied to its own result
\* yields the same rows, and so does apply_time_filters.
C14_FilteringIsIdempotent ==
    pc = "filtered_again" =>
        /\ ~flt_out.second.raised
        /\ flt_out.second.df_filtered = flt_out.first.df_filtered
        /\ flt_out.time_again = flt_out.time

\* C21: a comparison whose entities match no row at all (every count 0,
\* grand total 0) still ends in a report or declines; the comparison stage
\* never leaves route with a ZeroDivisionError.
C21_NoMatchStillReports ==
    (pc = "raised" /\ Len(ran) > 0 /\ ran[Len(ran)] = "comparison") =>
        raised # "ZeroDivisionError"

\* the cross-month range of the query names a day its month does not have
UnresolvableRange(info) ==
    /\ info.type = "cross_month"
    /\ \/ ~ValidDate(CurrentYear, info.start_month, info.start_day)
       \/ ~ValidDate(CurrentYear, info.end_month, info.end_day)

\* C22: a cross-month range that is no valid calendar date is discarded (no
\* date_range_full entry), and the same-month pattern, or else the
\* single-day pattern, is applied to the query instead.
C22_InvalidRangeFallsThrough ==
    LET toks == flt_in.query.text
        m == FirstMatch({i \in 1..Len(toks) : SameMonthAt(toks, i)})
        d == FirstMatch({i \in 1..Len(toks) : SingleDayAt(toks, i)})
        filters == flt_out.first.filters
    IN  (/\ pc = "filtered"
         /\ flt_in.key_columns.date # None
         /\ UnresolvableRange(parse_date_range_from_query(toks))) =>
            /\ "date_range_full" \notin DOMAIN filters
            /\ m # 0 => "date_range" \in DOMAIN filters
            /\ (m = 0 /\ d # 0) => "day" \in DOMAIN filters

(***************************************************************************)
(* The equipment-code extractor and the month extractor on their own: a    *)
(* query is a sequence of words, each an equipment code in some spelling,  *)
(* a month name of the table, or another word                              *)
(***************************************************************************)
CodeWords == {"gb-651", "ea-119", "EA-119", "gb651"}

QueryWords == CodeWords \cup MonthNames \cup {"vs"}

WordTexts == UNION {[1..n -> QueryWords] : n \in 0..MaxWords}

NotExtracted == [ran |-> FALSE, codes |-> <<>>, months |-> {}]

InitExtract ==
    /\ df = <<>>
    /\ key_columns = [date |-> None, identifier |-> None]
    /\ query = None
    /\ pc = "extract"
    /\ ran = <<>>
    /\ declined = {}
    /\ llm_calls = <<>>
    /\ envelope = NoEnvelope
    /\ raised = None
    /\ daily_in = NoDailyInput
    /\ anomalies = NoDetection
    /\ conf_in = NoConfInput
    /\ conf_out = -1
    /\ columns = Columns
    /\ previous = None
    /\ ComparisonOff /\ FilterOff /\ CacheOff
    /\ tokens \in WordTexts
    /\ date_info = None
    /\ extracted = NotExtracted

\* extract_equipment_codes(query) and parse_month_from_query(query)
Extract ==
    /\ pc = "extract"
    /\ pc' = "extracted"
    /\ extracted' = [ran |-> TRUE, codes |-> ExtractCodes(tokens),
                     months |-> UNION {MonthsOfWord(tokens[i]) : i \in 1..Len(tokens)}]
    /\ UNCHANGED <<df, key_columns, query, ran, declined, llm_calls, envelope, raised,
                   anomalyVars, confVars, columns, previous, comparisonVars,
                   filterVars, cacheVars, tokens, date_info>>

NextExtract == Extract

SpecExtract == InitExtract /\ [][NextExtract]_vars

\* the equipment code a word of the query spells, or None
CodeOf(word) == IF word \in CodeWords THEN Upper(word) ELSE None

\* the position of the first word that spells the code
FirstOccurrence(text, code) ==
    CHOOSE i \in 1..Len(text) :
        CodeOf(text[i]) = code /\ \A j \in 1..(i - 1) : CodeOf(text[j]) # code

\* C24: the equipment-code extractor lists the codes of the query without
\* duplicates and in the order of their first occurrence, also when
\* hyphenated and unhyphenated codes are mixed.
C24_CodesInFirstOccurrenceOrder ==
    pc = "extracted" =>
        LET codes == extracted.codes
        IN  /\ SeqToSet(codes) = {CodeOf(tokens[i]) : i \in 1..Len(tokens)} \ {None}
            /\ \A i, j \in 1..Len(codes) :
                   i < j => FirstOccurrence(tokens, codes[i]) < FirstOccurrence(tokens, codes[j])

\* C25: the month extractor returns month m whenever a name of month m in
\* its table occurs in the query, and nothing outside 1..12.
C25_EveryVariantIsDetected ==
    pc = "extracted" =>
        /\ extracted.months \subseteq 1..12
        /\ \A m \in 1..12 :
               (\E i \in 1..Len(tokens) : \E month_str \in MonthNamesOf(m) :
                    OccursIn(month_str, tokens[i]))
                   => m \in extracted.months

\* the resolver on the same query without its equipment codes
ResolvedWithoutCodes ==
    ResolveFilters(flt_in.table, flt_in.key_columns,
                   [flt_in.query EXCEPT !.found_identifiers = <<>>])

RowsWithCode(t, code) == SelectSeq(t, LAMBDA r : Contains(r.id, code))

\* C23: with the identifier role bound, one code restricts the table to the
\* rows whose identifier contains it and is recorded under identifier; two
\* codes with a comparison keyword restrict nothing, are recorded under
\* comparison_identifiers and leave no identifier entry and no description;
\* two codes without a comparison keyword restrict to the first code.
C23_IdentifierRestriction ==
    LET codes == flt_in.query.found_identifiers
        out == flt_out.first
        base == ResolvedWithoutCodes
    IN  (pc = "filtered" /\ flt_in.key_columns.identifier # None /\ codes # <<>>) =>
            IF Len(codes) >= 2 /\ flt_in.query.comparison
            THEN /\ out.df_filtered = base.df_filtered
                 /\ "comparison_identifiers" \in DOMAIN out.filters
                 /\ out.filters["comparison_identifiers"] = codes
                 /\ "identifier" \notin DOMAIN out.filters
                 /\ out.filter_descriptions = base.filter_descriptions
            ELSE /\ out.df_filtered = RowsWithCode(base.df_filtered, codes[1])
                 /\ "identifier" \in DOMAIN out.filters
                 /\ out.filters["identifier"] = codes[1]
                 /\ "comparison_identifiers" \notin DOMAIN out.filters
                 /\ Len(out.filter_descriptions) = Len(base.filter_descriptions) + 1

\* two codes without a comparison keyword, on a table that holds rows of
\* both: the rows of the first code are kept
C23_Witness ==
    /\ pc = "filtered"
    /\ flt_in.key_columns.identifier # None
    /\ flt_in.query.found_identifiers = <<"GB-651", "EA-119">>
    /\ ~flt_in.query.comparison
    /\ Len(flt_in.table) = 2
    /\ flt_in.table[1].id = "EA-119"
    /\ flt_in.table[2].id = "GB-651"
    /\ Len(flt_out.first.df_filtered) = 1
    /\ flt_out.first.filters["identifier"] = "GB-651"

(***************************************************************************)
(* build_detailed_breakdown on its own, as comparison mode calls it         *)
(***************************************************************************)
BreakdownColumns == UNION {[1..n -> 1..MaxValues] : n \in 0..MaxBreakdownRows}

\* every role bound, the equipment role only, two of the later dimensions
\* only, or no role
BoundRoleSets == {BreakdownRoles, {"identifier"}, {"category", "limit_type"}, {}}

BreakdownInputs == [column : BreakdownColumns, bound : BoundRoleSets]

InitBreakdown ==
    /\ df = <<>>
    /\ key_columns = [date |-> None, identifier |-> None]
    /\ query = None
    /\ pc = "breakdown"
    /\ ran = <<>>
    /\ declined = {}
    /\ llm_calls = <<>>
    /\ envelope = NoEnvelope
    /\ raised = None
    /\ daily_in = NoDailyInput
    /\ anomalies = NoDetection
    /\ conf_in = NoConfInput
    /\ conf_out = -1
    /\ columns = Columns
    /\ previous = None
    /\ cmp_in = None
    /\ cmp_out = None
    /\ bd_in \in BreakdownInputs
    /\ breakdown = None
    /\ FilterOff /\ DateRangeOff /\ CacheOff

BuildBreakdown ==
    /\ pc = "breakdown"
    /\ pc' = "broken_down"
    /\ \E kept \in HeadSets(value_counts(bd_in.column), OtherDimensionsLimit) :
           breakdown' = build_detailed_breakdown(bd_in.column, bd_in.bound, kept)
    /\ UNCHANGED <<df, key_columns, query, ran, declined, llm_calls, envelope, raised,
                   anomalyVars, confVars, columns, previous, cmp_in, cmp_out, bd_in,
                   filterVars, dateRangeVars, cacheVars>>

NextBreakdown == BuildBreakdown

SpecBreakdown == InitBreakdown /\ [][NextBreakdown]_vars

\* the sum of the counts a breakdown lists for one role
RECURSIVE ListedTotal(_, _)
ListedTotal(listed, values) ==
    IF values = {} THEN 0
    ELSE LET v == CHOOSE x \in values : TRUE
         IN  listed[v] + ListedTotal(listed, values \ {v})

\* C26: in comparison mode the breakdown of an entity lists, for every bound
\* dimension, every distinct value with its count, so the listed counts of
\* a dimension sum to the entity's count.
C26_EveryDimensionListsEveryValue ==
    pc = "broken_down" =>
        \A role \in bd_in.bound :
            /\ DOMAIN breakdown[role] = {bd_in.column[i] : i \in 1..Len(bd_in.column)}
            /\ ListedTotal(breakdown[role], DOMAIN breakdown[role]) = Len(bd_in.column)

\* C27: on a non-empty table the score is at least 35 whatever the filters,
\* the query and the method, so the floor at 0 never decides it and a score
\* below 35 comes from an empty table only.
C27_NonEmptyScoresAtLeast35 ==
    pc = "scored" =>
        /\ conf_in.frame.rows > 0 => conf_out >= 35
        /\ conf_out < 35 => (conf_in.frame.rows = 0 /\ conf_out = 0)

\* the worst case: fewer than 3 rows, no filters, an ambiguity marker, method
\* llm_analysis and more than 30% null cells
C27_Witness ==
    /\ pc = "scored"
    /\ conf_in.frame.rows = 2
    /\ conf_in.filters = NoFilters
    /\ AnyIn(AmbiguousTerms, conf_in.query)
    /\ conf_in.method = "llm_analysis"
    /\ 10 * conf_in.frame.nulls > 3 * conf_in.frame.rows * conf_in.frame.cols
    /\ conf_out = 35

(***************************************************************************)
(* app.py: answer_with_enhanced_llm and its query cache QUERY_CACHE        *)
(*                                                                         *)
(* A query is its cache key.  Whether it is a comparison query, and        *)
(* whether the backend call succeeds, is chosen at each call.              *)
(***************************************************************************)
\* get_cache_key(query, {}) of the two queries of a run
AnswerKeys == {1, 2}

\* get_from_cache: the data of a key whose entry is not expired, else None;
\* an expired entry stays in the dict
get_from_cache(c, k, t) ==
    IF HasKey(c, k) /\ TimedeltaSeconds(t - c[IndexOfKey(c, k)].timestamp) < CACHE_EXPIRY_SECONDS
    THEN c[IndexOfKey(c, k)].data
    ELSE None

\* save_to_cache: room is made by dropping the oldest entry, then the key is
\* stored with the current time
save_to_cache(c, k, data, t) ==
    LET room == IF AtCapacity(Len(c), max_size) THEN RemoveAt(c, OldestIndex(c)) ELSE c
    IN  Store(room, k, data, t)

\* seeded fault: an except branch that saves the error result
SavedOnError(c, k, t) == save_to_cache(c, k, "error", t)

\* the except branch of answer_with_enhanced_llm: the error result is
\* returned, QUERY_CACHE is not touched
UnchangedOnError(c, k, t) == c

\* what the call returned; calls counts the backend calls made so far
Answered(k, method, calls) ==
    cache_out' = [op |-> "answer", key |-> k, method |-> method, calls |-> calls]

answer_with_enhanced_llm ==
    /\ pc = "answer"
    /\ \E k \in AnswerKeys, is_comparison \in BOOLEAN, outcome \in LLMOutcomes :
        LET cached == get_from_cache(cache, k, now)
        IN  IF cached # None
            THEN /\ Answered(k, "cached", cache_out.calls)
                 /\ UNCHANGED cache
            ELSE IF is_comparison
            THEN /\ cache' = save_to_cache(cache, k, "comparison", now)
                 /\ Answered(k, "comparison", cache_out.calls)
            ELSE /\ cache_out.calls < MaxCalls
                 /\ IF outcome = "ok"
                    THEN /\ cache' = save_to_cache(cache, k, "llm_analysis", now)
                         /\ Answered(k, "llm_analysis", cache_out.calls + 1)
                    ELSE /\ cache' = UnchangedOnError(cache, k, now)
                         /\ Answered(k, "error", cache_out.calls + 1)
    /\ UNCHANGED <<df, key_columns, query, pc, ran, declined, llm_calls, envelope, raised,
                   anomalyVars, confVars, columns, previous, comparisonVars,
                   filterVars, dateRangeVars, max_size, now, ticks>>

InitAnswer ==
    /\ df = <<>>
    /\ key_columns = [date |-> None, identifier |-> None]
    /\ query = None
    /\ pc = "answer"
    /\ ran = <<>>
    /\ declined = {}
    /\ llm_calls = <<>>
    /\ envelope = NoEnvelope
    /\ raised = None
    /\ daily_in = NoDailyInput
    /\ anomalies = NoDetection
    /\ conf_in = NoConfInput
    /\ conf_out = -1
    /\ columns = Columns
    /\ previous = None
    /\ ComparisonOff /\ FilterOff /\ DateRangeOff
    /\ cache = <<>>
    /\ max_size \in 1..MaxCacheSize
    /\ now = 0
    /\ ticks = 0
    /\ cache_out = [op |-> "none", key |-> 0, method |-> None, calls |-> 0]

NextAnswer == answer_with_enhanced_llm \/ Tick

SpecAnswer == InitAnswer /\ [][NextAnswer]_vars

\* the step is a call of answer_with_enhanced_llm that invoked the backend
BackendCalled == cache_out'.calls = cache_out.calls + 1

\* C28: a backend call that raises leaves the cache as it was, no entry ever
\* holds an error result, and the same query sent again at once is not
\* answered from the cache: it invokes the backend again.
C28_FailedCallIsNotCached ==
    [][/\ (BackendCalled /\ cache_out'.method = "error") => cache' = cache
       /\ \A i \in 1..Len(cache') : cache'[i].data # "error"
       /\ (/\ cache_out.method = "error"
           /\ now' = now
           /\ cache_out'.key = cache_out.key)
              => (cache_out'.method # "cached"
                  /\ (cache_out'.method # "comparison" => BackendCalled))]_vars

\* a failed call for a key that is not cached, while another key is, followed
\* by nothing else
C28_Witness ==
    /\ cache_out.op = "answer"
    /\ cache_out.method = "error"
    /\ cache_out.calls = 2
    /\ Len(cache) = 1
    /\ cache[1].data = "llm_analysis"
    /\ ~HasKey(cache, cache_out.key)

(***************************************************************************)
(* Properties of the anomaly stage's envelope                              *)
(***************************************************************************)
HasMarkers(graph_data) == "anomaly_dates" \in DOMAIN graph_data

\* C29: the chart of the anomaly stage carries markers only when anomalies
\* were detected; then every marker date is a date of the chart, the marker
\* count is the number of anomaly records, and the four severity counts sum
\* to it.
C29_MarkersMatchTheAnomalies ==
    pc = "answered" =>
        LET g == envelope.graph_data
        IN  HasMarkers(g) =>
                /\ anomalies.detected
                /\ \A k \in 1..Len(g.anomaly_dates) :
                       \E i \in 1..Len(g.dates) : g.dates[i] = g.anomaly_dates[k]
                /\ g.anomaly_info.count = Len(anomalies.anomalies)
                /\ Len(g.anomaly_dates) = g.anomaly_info.count
                /\ g.anomaly_info.severity_distribution["critical"]
                   + g.anomaly_info.severity_distribution["high"]
                   + g.anomaly_info.severity_distribution["medium"]
                   + g.anomaly_info.severity_distribution["low"]
                   = g.anomaly_info.count

\* a chart with markers of which one is of the low tier
C29_Witness ==
    /\ pc = "answered"
    /\ anomalies.detected
    /\ HasMarkers(envelope.graph_data)
    /\ envelope.graph_data.anomaly_info.count >= 1
    /\ envelope.graph_data.anomaly_info.severity_distribution["low"] >= 1
    /\ Len(envelope.graph_data.dates) >= 3

\* C30: the confidence of an identifier search never exceeds 95, also when
\* the query names a month or a day, and it is 0 when no rows are found.
C30_IdentifierSearchAtMost95 ==
    pc = "searched" =>
        /\ conf_out <= 95
        /\ conf_in.frame.rows = 0 => conf_out = 0

\* at least 10 rows found for an unambiguous query that names a month: 95
C30_Witness ==
    /\ pc = "searched"
    /\ conf_in.frame.rows >= 10
    /\ Truthy(conf_in.filters, "months")
    /\ ~AnyIn(AmbiguousTerms, conf_in.query)
    /\ conf_out = 95

====
